---- MODULE Spec2Model ----
(***************************************************************************)
(* ActionSync: a client (src/actionsync.js, class ActionSync with          *)
(* fullQueue) that queues locally dispatched actions and reconciles them   *)
(* with the in-memory authority (src/unnamed/part_000, the Express server) *)
(* through POST /sync.  The same file holds a second class ActionSync,     *)
(* without fullQueue, whose export() empties the pending queue and keeps   *)
(* it in lastExportQueue for reexportLast(); its operations are the        *)
(* Backup... actions and ReexportLast.                                     *)
(*                                                                         *)
(* A state is the fields of every client instance, the authority's         *)
(* storage object, the sync() invocations that are suspended at their      *)
(* await, and the clock.  History variables (lastOp, acked, failBase,      *)
(* returned, exportDoc, sinceExport, imported) and the uid of an action    *)
(* record what the claims speak about and are never read by the modelled   *)
(* code.                                                                   *)
(***************************************************************************)
EXTENDS Integers, Sequences, FiniteSets, TLC

VARIABLES
    now,             \* Date.now(), shared wall clock (milliseconds)
    actionQueue,     \* [device -> Seq(action)]   this.actionQueue
    fullQueue,       \* [device -> Seq(action)]   this.fullQueue
    lastExportQueue, \* [device -> Seq(action)]   this.lastExportQueue (the class
                     \*   that keeps a backup of the last exported queue)
    lastActionId,    \* [device -> id]            this.lastActionId
    actionIdCounter, \* [device -> Nat]           this.actionIdCounter
    loadState,       \* [device -> "loading" | "ready"]  _initializationPromise
    loadResult,      \* [device -> what chrome.storage.local.get answered]
    chromeStore,     \* [device -> what chrome.storage.local holds for the instance]
    autoSync,        \* [device -> BOOLEAN]      this.autoSync (with a serverUrl)
    syncTimer,       \* [device -> "none" | "periodic" | "debounce"]  the timeout
                     \*   this.syncTimer refers to, while it is pending
    calls,           \* [device -> Seq(call)]  sync() invocations in flight
    storage,         \* the authority: [actions, deviceLastSync, actionCounter]
    nextUid,         \* history: identity of the next action object created
    lastOp,          \* history: the operation that produced this state
    acked,           \* history: [device -> uids sent in a sync() that succeeded,
                     \*           nextUid when the last one succeeded, and uids
                     \*           a sync() that succeeded moved to fullQueue]
    failBase,        \* history: [device -> uids queued at the last network failure, plus dispatches since]
    returned,        \* history: [device -> [uid -> times the authority returned it]]
    exportDoc,       \* history: [device -> last document export() produced]
    sinceExport,     \* history: [device -> "never", "changed" (queues changed since the
                     \*           last export), "clean" (exported), "repeated" (twice)]
    imported,        \* history: [device -> input and result of the last import()]
    destroyed        \* history: [device -> BOOLEAN]  destroy() was called

vars == <<now, actionQueue, fullQueue, lastExportQueue, lastActionId, actionIdCounter, loadState,
          loadResult, chromeStore, autoSync, syncTimer, calls, storage, nextUid,
          lastOp, acked,
          failBase, returned, exportDoc, sinceExport, imported, destroyed>>

----------------------------------------------------------------------------
(* Bounds of the model *)

MaxTime == 2          \* the clock runs over 1..MaxTime
MaxUid == 3           \* action objects created in one behaviour
MaxLog == 3           \* entries the authority's log may hold
MaxInflight == 1      \* sync() invocations of a user who awaits each call
MaxOverlap == 2       \* sync() invocations in flight when calls may overlap
MaxBatch == 2         \* SpecAuthority: actions in one request
MaxImport == 3        \* SpecImport: actions in one imported document
MaxQueueSize == 2     \* options.maxQueueSize
RetryAttempts == 2    \* options.retryAttempts

(* Program constants *)
FullQueueFactor == 5  \* fullQueue may be 5x larger than maxQueueSize
CounterMask == 65536  \* 0xFFFF + 1: the 16-bit counter field
SignBit == 32768      \* 0x8000: bit 15, which << 16 moves into the sign bit

Devices == {"d1", "d2"}
\* a device that talks to the authority without a client instance of the model
Peers == {"d3"}

----------------------------------------------------------------------------
(* Identifiers and watermarks are JavaScript strings, modelled as the      *)
(* sequence of their character codes, so that ===, > and the formatting    *)
(* of numbers are what the code computes.                                  *)

ZeroId == <<48>>                                 \* '0'
OtherId == <<120>>                               \* 'x': a string no id has
ServerPrefix == <<115, 101, 114, 118, 101, 114, 45>>   \* 'server-'
Minus == 45                                      \* '-'
ZeroChar == 48                                   \* '0'

\* the character of one digit: '0'..'9', 'a'..'f'
DigitChar(n) == IF n < 10 THEN ZeroChar + n ELSE 87 + n

\* Number.prototype.toString(radix) of an integer
RECURSIVE NatToString(_, _)
NatToString(n, radix) ==
    IF n < radix THEN <<DigitChar(n)>>
    ELSE NatToString(n \div radix, radix) \o <<DigitChar(n % radix)>>

\* the digits of -n for n < 0, computed from -(n + 1) so that the least
\* 32-bit integer needs no negation
NegToString(n, radix) ==
    LET m == 0 - (n + 1)
        lo == m % radix
        hi == m \div radix
    IN  IF lo = radix - 1 THEN NatToString(hi + 1, radix) \o <<DigitChar(0)>>
        ELSE (IF hi = 0 THEN << >> ELSE NatToString(hi, radix))
                 \o <<DigitChar(lo + 1)>>

NumberToString(n, radix) ==
    IF n < 0 THEN <<Minus>> \o NegToString(n, radix) ELSE NatToString(n, radix)

\* String.prototype.padStart(len, '0')
PadStart(str, len) ==
    IF Len(str) >= len THEN str
    ELSE [i \in 1..(len - Len(str)) |-> ZeroChar] \o str

\* x << 16 for a 16-bit x: the result is a signed 32-bit integer
ShiftLeft16(x) ==
    IF x >= SignBit THEN (x - CounterMask) * CounterMask ELSE x * CounterMask

\* _generateActionId: high32 = floor(ts / 0x10000),
\* low32 = ((ts & 0xFFFF) << 16) | (counter & 0xFFFF)
High32(ts) == ts \div CounterMask
Low32(ts, counter) ==
    ShiftLeft16(ts % CounterMask) + (counter % CounterMask)

GenerateActionId(ts, counter) ==
    PadStart(NumberToString(High32(ts), 16), 8)
        \o PadStart(NumberToString(Low32(ts, counter), 16), 8)

\* generateServerId: `server-${Date.now()}-${++storage.actionCounter}`,
\* n being the counter after the increment
GenerateServerId(ts, n) ==
    ServerPrefix \o NumberToString(ts, 10) \o <<Minus>> \o NumberToString(n, 10)

\* JavaScript's a > b on strings: lexicographic by character code
RECURSIVE StringGreater(_, _)
StringGreater(x, y) ==
    IF x = << >> THEN FALSE
    ELSE IF y = << >> THEN TRUE
    ELSE IF x[1] # y[1] THEN x[1] > y[1]
    ELSE StringGreater(Tail(x), Tail(y))

----------------------------------------------------------------------------
(* Payloads: opaque key/value documents *)

PA == [type |-> "SAVE", id |-> "n1", v |-> "1"]
PB == [type |-> "SAVE", id |-> "n1", v |-> "2"]
PC == [type |-> "SAVE", id |-> "n2", v |-> "1"]
PD == [type |-> "NOTE"]
Payloads == {PA, PB}
FilterKeyLists == {<< >>, <<"type", "id">>}

Range(s) == {s[i] : i \in 1..Len(s)}
Uids(s) == {s[i].uid : i \in 1..Len(s)}
UidSeq(s) == [i \in 1..Len(s) |-> s[i].uid]

\* _actionContainsKeys
ActionContainsKeys(payload, keys) == \A k \in Range(keys) : k \in DOMAIN payload

\* faulty variant: an action matches when one of the keys has an equal value
MatchesAny(existing, newPayload, keys) ==
    \E k \in Range(keys) :
        k \in DOMAIN existing.payload /\ existing.payload[k] = newPayload[k]

\* the predicate of _removeMatchingActions' filter, negated: the action matches
MatchesAll(existing, newPayload, keys) ==
    \A k \in Range(keys) :
        k \in DOMAIN existing.payload /\ existing.payload[k] = newPayload[k]

\* _removeMatchingActions
RemoveMatchingActions(queue, newPayload, keys) ==
    SelectSeq(queue, LAMBDA e : ~MatchesAll(e, newPayload, keys))

\* _enforceQueueSize: splice(0, length - maxQueueSize)
EnforceQueueSize(queue) ==
    IF Len(queue) > MaxQueueSize
    THEN SubSeq(queue, Len(queue) - MaxQueueSize + 1, Len(queue))
    ELSE queue

\* _enforceFullQueueSize
EnforceFullQueueSize(queue) ==
    IF Len(queue) > MaxQueueSize * FullQueueFactor
    THEN SubSeq(queue, Len(queue) - MaxQueueSize * FullQueueFactor + 1, Len(queue))
    ELSE queue

----------------------------------------------------------------------------
(* Persistence (chrome.storage.local).  One record per device stands for   *)
(* both storage keys (storageKey and fullQueueStorageKey).                 *)

NoStore(avail) ==
    [avail |-> avail, present |-> FALSE, actionQueue |-> << >>,
     lastActionId |-> ZeroId, actionIdCounter |-> 0,
     fullPresent |-> FALSE, fullQueue |-> << >>]

\* _isChromeStorageAvailable
IsChromeStorageAvailable(d) == chromeStore[d].avail

\* _saveToStorage: chrome.storage.local.set({[storageKey]: dataToStore})
SaveToStorage(st, q, w, c) ==
    IF st.avail
    THEN [st EXCEPT !.present = TRUE, !.actionQueue = q, !.lastActionId = w,
                    !.actionIdCounter = c]
    ELSE st

\* _saveFullQueueToStorage
SaveFullQueueToStorage(st, fq) ==
    IF st.avail THEN [st EXCEPT !.fullPresent = TRUE, !.fullQueue = fq] ELSE st

\* An action object as dispatch builds it; uid is its identity (history only).
EnhancedAction(id, ts, d, payload, uid) ==
    [actionId |-> id, timestamp |-> ts, deviceId |-> d, payload |-> payload,
     uid |-> uid]

\* What an earlier instance of device d left in storage: one pending action
\* dispatched at time 0.
OldAction(d) == EnhancedAction(GenerateActionId(0, 0), 0, d, PD, 0)
\* What an earlier instance of device d, configured with a larger
\* maxQueueSize, left in storage: MaxQueueSize + 1 pending actions.
LargerSession(d) ==
    [avail |-> TRUE, present |-> TRUE,
     actionQueue |-> [k \in 1..(MaxQueueSize + 1) |->
                        EnhancedAction(GenerateActionId(0, k - 1), 0, d, PD, 0)],
     lastActionId |-> ZeroId, actionIdCounter |-> MaxQueueSize + 1,
     fullPresent |-> FALSE, fullQueue |-> << >>]

PreviousSession(d) ==
    [avail |-> TRUE, present |-> TRUE, actionQueue |-> <<OldAction(d)>>,
     lastActionId |-> ZeroId, actionIdCounter |-> 1,
     fullPresent |-> FALSE, fullQueue |-> << >>]

----------------------------------------------------------------------------
(* History records *)

Op(name, d) ==
    [op |-> name, dev |-> d, i |-> 0, payloads |-> << >>, cb |-> FALSE,
     code |-> "", resp |-> << >>, keys |-> << >>, w |-> << >>,
     latest |-> << >>, id |-> << >>, ts |-> 0, ctr |-> 0, delay |-> 0,
     cbArgs |-> << >>, threw |-> FALSE, req |-> << >>, status |-> 0,
     success |-> FALSE]

NoBase == [valid |-> FALSE, uids |-> << >>]

----------------------------------------------------------------------------
(* Timers.  Every setTimeout of the class is preceded by a clearTimeout of *)
(* this.syncTimer and assigned to it, so at most one timeout is pending.   *)

\* _startAutoSync: clearTimeout(this.syncTimer), then the timer it sets
StartAutoSync == "periodic"

\* _scheduleSync: clearTimeout(this.syncTimer), then the timer it sets
ScheduleSync == "debounce"

\* the timeouts of device d that are pending: every setTimeout of the class
\* is preceded by clearTimeout(this.syncTimer), so there is at most one
PendingTimers(d) == IF syncTimer[d] = "none" THEN {} ELSE {syncTimer[d]}

\* the .finally of the periodic timeout's callback, after sync() has settled
TimerAfterSync(d, c) ==
    IF c.by = "periodic" /\ autoSync[d] THEN StartAutoSync ELSE syncTimer[d]

----------------------------------------------------------------------------
(* The clock *)

Tick ==
    /\ now < MaxTime
    /\ now' = now + 1
    /\ lastOp' = Op("tick", "d1")
    /\ UNCHANGED <<actionQueue, fullQueue, lastActionId, actionIdCounter,
                   loadState, loadResult, lastExportQueue, chromeStore, calls, storage, nextUid,
                   acked, failBase, returned, exportDoc, sinceExport, imported,
                   autoSync, syncTimer, destroyed>>

----------------------------------------------------------------------------
(* ActionSync._generateActionId(), called after adv milliseconds have      *)
(* passed.  nextUid counts the calls.                                      *)

GenerateNextId(d, adv) ==
    /\ nextUid <= MaxUid
    /\ now' = now + adv
    /\ actionIdCounter' = [actionIdCounter EXCEPT ![d] = @ + 1]
    /\ nextUid' = nextUid + 1
    /\ lastOp' = [Op("generateActionId", d) EXCEPT
                     !.id = GenerateActionId(now + adv, actionIdCounter[d]),
                     !.ts = now + adv,
                     !.ctr = actionIdCounter[d]]
    /\ UNCHANGED <<actionQueue, fullQueue, lastActionId, loadState, loadResult, lastExportQueue,
                   chromeStore, calls, storage, acked, failBase, returned,
                   exportDoc, sinceExport, imported, autoSync, syncTimer,
                   destroyed>>

----------------------------------------------------------------------------
(* ActionSync.dispatch(action, filterKeys).  adv is the time that passes   *)
(* between the Date.now() of _generateActionId and the Date.now() of       *)
(* dispatch itself.                                                        *)

DispatchQueue(queue, new, keys) ==
    LET filtered == IF Len(keys) > 0 /\ ActionContainsKeys(new.payload, keys)
                    THEN RemoveMatchingActions(queue, new.payload, keys)
                    ELSE queue
    IN  EnforceQueueSize(Append(filtered, new))

\* limit bounds the action objects created in one behaviour
DispatchWithin(d, payload, keys, adv, limit) ==
    /\ nextUid <= limit
    /\ now + adv <= MaxTime
    /\ LET id == GenerateActionId(now, actionIdCounter[d])
           new == EnhancedAction(id, now + adv, d, payload, nextUid)
           q == DispatchQueue(actionQueue[d], new, keys)
       IN  /\ actionQueue' = [actionQueue EXCEPT ![d] = q]
           /\ actionIdCounter' = [actionIdCounter EXCEPT ![d] = @ + 1]
           /\ chromeStore' = [chromeStore EXCEPT ![d] =
                  SaveToStorage(@, q, lastActionId[d], actionIdCounter[d] + 1)]
           /\ failBase' = [failBase EXCEPT ![d] =
                  IF @.valid /\ q = Append(actionQueue[d], new)
                  THEN [@ EXCEPT !.uids = Append(@, nextUid)]
                  ELSE NoBase]
           /\ lastOp' = [Op("dispatch", d) EXCEPT !.keys = keys]
    /\ now' = now + adv
    /\ nextUid' = nextUid + 1
    /\ UNCHANGED <<fullQueue, lastActionId, loadState, loadResult, lastExportQueue, calls,
                   storage, acked, returned, exportDoc, imported, autoSync,
                   destroyed>>
    /\ sinceExport' = [sinceExport EXCEPT ![d] = "changed"]
    /\ syncTimer' = [syncTimer EXCEPT ![d] =
           IF autoSync[d] THEN ScheduleSync ELSE @]

Dispatch(d, payload, keys, adv) == DispatchWithin(d, payload, keys, adv, MaxUid)

----------------------------------------------------------------------------
(* dispatch(action, filterKeys) for arguments of any type.  An argument is *)
(* [kind, value]: for action, an object or an array (value: the payload    *)
(* { ...action } makes of it), or null, a string, a number; for            *)
(* filterKeys, an array of strings or of numbers (value: the property      *)
(* names hasOwnProperty looks up), or a string, or null.                   *)

Argument(kind, value) == [kind |-> kind, value |-> value]

\* !action || typeof action !== 'object' is false
ActionIsObject(action) == action.kind \in {"object", "array"}

\* faulty variant: filterKeys is not checked
IsArrayUnchecked(filterKeys) == TRUE

\* Array.isArray(filterKeys)
IsArray(filterKeys) == filterKeys.kind \in {"strings", "numbers"}

DispatchCall(d, action, filterKeys) ==
    IF ActionIsObject(action) /\ IsArray(filterKeys)
    THEN Dispatch(d, action.value, filterKeys.value, 0)
    ELSE /\ lastOp' = [Op("dispatchRejected", d) EXCEPT
                          !.code = "Error",
                          !.req = <<action, filterKeys>>]
         /\ UNCHANGED <<now, actionQueue, fullQueue, lastActionId,
                        actionIdCounter, loadState, loadResult, lastExportQueue, chromeStore,
                        calls, storage, nextUid, acked, failBase, returned,
                        exportDoc, sinceExport, imported, autoSync, syncTimer,
                        destroyed>>

----------------------------------------------------------------------------
(* The authority (src/unnamed/part_000) *)

\* { ...action, serverId, receivedAt, sourceDevice }: the fields the action
\* has, then the three of the authority
StoredAction(action, serverId, ts, deviceId) ==
    [f \in DOMAIN action \cup {"serverId", "receivedAt", "sourceDevice"} |->
        IF f = "serverId" THEN serverId
        ELSE IF f = "receivedAt" THEN ts
        ELSE IF f = "sourceDevice" THEN deviceId
        ELSE action[f]]

\* faulty variant: the counter is incremented once for the whole batch
StoreActionsOneId(st, actions, deviceId, ts) ==
    [actions |-> st.actions \o
                 [i \in 1..Len(actions) |->
                    StoredAction(actions[i],
                                 GenerateServerId(ts, st.actionCounter + 1),
                                 ts, deviceId)],
     deviceLastSync |-> [st.deviceLastSync EXCEPT ![deviceId] = ts],
     actionCounter |-> st.actionCounter + 1]

\* faulty variant: unshift instead of push
StoreActionsInFront(st, actions, deviceId, ts) ==
    [actions |-> [i \in 1..Len(actions) |->
                    StoredAction(actions[i],
                                 GenerateServerId(ts, st.actionCounter + i),
                                 ts, deviceId)] \o st.actions,
     deviceLastSync |-> [st.deviceLastSync EXCEPT ![deviceId] = ts],
     actionCounter |-> st.actionCounter + Len(actions)]

\* storeActions(actions, deviceId)
StoreActions(st, actions, deviceId, ts) ==
    [actions |-> st.actions \o
                 [i \in 1..Len(actions) |->
                    StoredAction(actions[i],
                                 GenerateServerId(ts, st.actionCounter + i),
                                 ts, deviceId)],
     deviceLastSync |-> [st.deviceLastSync EXCEPT ![deviceId] = ts],
     actionCounter |-> st.actionCounter + Len(actions)]

\* Array.prototype.findIndex, 1-based; 0 when nothing matches
FindIndex(log, lastId) ==
    LET hits == {i \in 1..Len(log) :
                    \/ "actionId" \in DOMAIN log[i] /\ log[i].actionId = lastId
                    \/ log[i].serverId = lastId}
    IN  IF hits = {} THEN 0 ELSE CHOOSE i \in hits : \A j \in hits : i <= j

\* the object the .map of getActionsForDevice builds, as JSON carries it: a
\* field the stored action lacks is undefined and is left out
WireAction(e) ==
    [f \in DOMAIN e \cap {"actionId", "timestamp", "deviceId", "payload", "uid"}
        |-> e[f]]

\* faulty variant: the actions of the requesting device are not filtered out
GetActionsUnfiltered(st, deviceId, lastId) ==
    LET startIndex == IF lastId # ZeroId THEN FindIndex(st.actions, lastId) ELSE 0
        tail == SubSeq(st.actions, startIndex + 1, Len(st.actions))
    IN  [i \in 1..Len(tail) |-> WireAction(tail[i])]

\* faulty variant: the entry the watermark identifies is returned again
GetActionsInclusive(st, deviceId, lastId) ==
    LET found == IF lastId # ZeroId THEN FindIndex(st.actions, lastId) ELSE 0
        startIndex == IF found > 0 THEN found - 1 ELSE 0
        tail == SubSeq(st.actions, startIndex + 1, Len(st.actions))
        others == SelectSeq(tail, LAMBDA e : e.sourceDevice # deviceId)
    IN  [i \in 1..Len(others) |-> WireAction(others[i])]

\* getActionsForDevice(deviceId, lastActionId)
GetActionsForDevice(st, deviceId, lastId) ==
    LET startIndex == IF lastId # ZeroId THEN FindIndex(st.actions, lastId) ELSE 0
        tail == SubSeq(st.actions, startIndex + 1, Len(st.actions))
        others == SelectSeq(tail, LAMBDA e : e.sourceDevice # deviceId)
    IN  [i \in 1..Len(others) |-> WireAction(others[i])]

\* getLatestActionId()
GetLatestActionId(st) ==
    IF Len(st.actions) = 0 THEN ZeroId ELSE st.actions[Len(st.actions)].serverId

NoResponse == [ok |-> FALSE, lastActionId |-> ZeroId, actions |-> << >>]

\* app.post('/sync'): the storage after the request and the response to it
SyncStorage(st, deviceId, actions, ts) ==
    IF Len(actions) > 0 THEN StoreActions(st, actions, deviceId, ts) ELSE st

SyncResponse(st, deviceId, lastId, actions, ts) ==
    LET after == SyncStorage(st, deviceId, actions, ts)
    IN  [ok |-> TRUE,
         lastActionId |-> GetLatestActionId(after),
         actions |-> GetActionsForDevice(after, deviceId, lastId)]

\* history: the authority returned these actions to device d once more
CountReturned(ret, actions) ==
    [u \in DOMAIN ret |->
        IF u \in Uids(actions) /\ ret[u] < 2 THEN ret[u] + 1 ELSE ret[u]]

----------------------------------------------------------------------------
(* ActionSync.sync(), split at its await of _fetchWithRetry *)

\* by: what called sync(): "manual" (the user), "periodic" (the timeout of
\* _startAutoSync, whose .finally arms the next one), "debounce" (the timeout
\* of _scheduleSync)
\* cut (history): destroy() was called while the request was in flight
Call(batch, lastId, by) ==
    [batch |-> batch, sentId |-> lastId, attempt |-> 1, state |-> "sent",
     resp |-> NoResponse, by |-> by, cut |-> FALSE]

\* faulty variant: the body holds only the newest pending action
SyncBodyNewest(queue) == IF queue = << >> THEN << >> ELSE <<queue[Len(queue)]>>

\* the actions field of the request body: JSON.stringify of this.actionQueue
SyncBody(queue) == queue

\* faulty variant: the status of the response is not looked at
ResponseOkIgnored(resp) == TRUE

\* response.ok
ResponseOk(resp) == resp.ok

RemoveAt(s, i) == SubSeq(s, 1, i - 1) \o SubSeq(s, i + 1, Len(s))

\* sync() up to the first fetch: the body is serialized from the queue as
\* it is now.  limit bounds the invocations in flight.
SyncStart(d, limit) ==
    /\ Len(calls[d]) < limit
    /\ calls' = [calls EXCEPT ![d] =
                    Append(@, Call(SyncBody(actionQueue[d]), lastActionId[d],
                                   "manual"))]
    /\ lastOp' = [Op("syncStart", d) EXCEPT !.i = Len(calls[d]) + 1]
    /\ UNCHANGED <<now, actionQueue, fullQueue, lastActionId, actionIdCounter,
                   loadState, loadResult, lastExportQueue, chromeStore, storage, nextUid,
                   acked, failBase, returned, exportDoc, sinceExport, imported,
                   autoSync, syncTimer, destroyed>>

\* The pending timeout of d fires and its callback calls sync().  The
\* handle in this.syncTimer is stale from now on.
TimerFire(d, limit) ==
    /\ syncTimer[d] # "none"
    /\ Len(calls[d]) < limit
    /\ calls' = [calls EXCEPT ![d] =
                    Append(@, Call(SyncBody(actionQueue[d]), lastActionId[d],
                                   syncTimer[d]))]
    /\ syncTimer' = [syncTimer EXCEPT ![d] = "none"]
    /\ lastOp' = [Op("timerFire", d) EXCEPT !.i = Len(calls[d]) + 1]
    /\ UNCHANGED <<now, actionQueue, fullQueue, lastActionId, actionIdCounter,
                   loadState, loadResult, lastExportQueue, chromeStore, storage, nextUid,
                   acked, failBase, returned, exportDoc, sinceExport, imported,
                   autoSync, destroyed>>

\* The authority handles the request of call i of device d.
ServerSyncStep(d, i) ==
    /\ i \in 1..Len(calls[d])
    /\ calls[d][i].state = "sent"
    /\ Len(storage.actions) + Len(calls[d][i].batch) <= MaxLog
    /\ LET c == calls[d][i]
           resp == SyncResponse(storage, d, c.sentId, c.batch, now)
       IN  /\ storage' = SyncStorage(storage, d, c.batch, now)
           /\ calls' = [calls EXCEPT ![d][i].state = "answered",
                                     ![d][i].resp = resp]
           /\ lastOp' = [Op("serverSync", d) EXCEPT !.i = i]
    /\ UNCHANGED <<now, actionQueue, fullQueue, lastActionId, actionIdCounter,
                   loadState, loadResult, lastExportQueue, chromeStore, nextUid, acked,
                   failBase, exportDoc, sinceExport, imported,
                   autoSync, syncTimer, destroyed>>

ServerSync(d, i) == ServerSyncStep(d, i) /\ UNCHANGED returned

\* the same step, with the history of what was returned to d kept
ServerSyncCounting(d, i) ==
    /\ ServerSyncStep(d, i)
    /\ returned' = [returned EXCEPT ![d] =
           CountReturned(@, SyncResponse(storage, d, calls[d][i].sentId,
                                         calls[d][i].batch, now).actions)]

\* The request is answered with a non-success status (a proxy, the 404 or the
\* error middleware); the authority's storage is not touched.
HttpError(d, i) ==
    /\ i \in 1..Len(calls[d])
    /\ calls[d][i].state = "sent"
    /\ calls' = [calls EXCEPT ![d][i].state = "answered",
                              ![d][i].resp = NoResponse]
    /\ lastOp' = [Op("httpError", d) EXCEPT !.i = i]
    /\ UNCHANGED <<now, actionQueue, fullQueue, lastActionId, actionIdCounter,
                   loadState, loadResult, lastExportQueue, chromeStore, storage, nextUid,
                   acked, failBase, returned, exportDoc, sinceExport, imported,
                   autoSync, syncTimer, destroyed>>

\* The response to call i of device d arrives with status 200 and a body
\* whose actions array is remoteActions, the authority being left aside.
ResponseArrives(d, i, remoteActions) ==
    /\ i \in 1..Len(calls[d])
    /\ calls[d][i].state = "sent"
    /\ calls' = [calls EXCEPT ![d][i].state = "answered",
                              ![d][i].resp = [ok |-> TRUE,
                                              lastActionId |-> ZeroId,
                                              actions |-> remoteActions]]
    /\ lastOp' = [Op("response", d) EXCEPT !.i = i]
    /\ UNCHANGED <<now, actionQueue, fullQueue, lastActionId, actionIdCounter,
                   loadState, loadResult, lastExportQueue, chromeStore, storage, nextUid,
                   acked, failBase, returned, exportDoc, sinceExport, imported,
                   autoSync, syncTimer, destroyed>>

\* _createSyncError: the code of the error sync() rejects with.  An error is
\* [name, fetchWord, syncFailed]: its name, whether its message contains
\* 'fetch', whether it contains 'Sync failed:'.
CreateSyncError(err) ==
    IF err.name = "TypeError" /\ err.fetchWord THEN "NETWORK_ERROR"
    ELSE IF err.syncFailed THEN "INVALID_RESPONSE"
    ELSE "UNKNOWN_ERROR"

\* what fetch() rejects with: TypeError 'Failed to fetch' / 'fetch failed',
\* TypeError 'Load failed'
FetchErrors ==
    {[name |-> "TypeError", fetchWord |-> TRUE, syncFailed |-> FALSE],
     [name |-> "TypeError", fetchWord |-> FALSE, syncFailed |-> FALSE]}

\* new Error(`Sync failed: ${response.status} ${response.statusText}`)
StatusError == [name |-> "Error", fetchWord |-> FALSE, syncFailed |-> TRUE]

\* Array.prototype.sort((a, b) => a.timestamp - b.timestamp): a stable sort
RECURSIVE SortByTimestamp(_)
SortByTimestamp(s) ==
    IF s = << >> THEN << >>
    ELSE LET rest == SortByTimestamp(SubSeq(s, 1, Len(s) - 1))
             e == s[Len(s)]
             k == Cardinality({i \in 1..Len(rest) :
                                  rest[i].timestamp <= e.timestamp})
         IN  SubSeq(rest, 1, k) \o <<e>> \o SubSeq(rest, k + 1, Len(rest))

PayloadsOf(s) == [i \in 1..Len(s) |-> s[i].payload]

\* _processRemoteActions: the payloads it returns
ProcessRemoteActions(remoteActions) ==
    IF Len(remoteActions) = 0 THEN << >>
    ELSE PayloadsOf(SortByTimestamp(remoteActions))

\* _processRemoteActions: whether it calls this.onRemoteActions (a callback
\* is registered on every instance of the model)
CallsOnRemoteActions(remoteActions) == Len(remoteActions) # 0

\* faulty variant: the callback is called for an empty array too
OnRemoteActionsAlways(remoteActions) ==
    <<PayloadsOf(SortByTimestamp(remoteActions))>>

\* _processRemoteActions: the argument of each call of this.onRemoteActions
\* it makes, in order (an empty array returns before the callback)
OnRemoteActionsCalls(remoteActions) ==
    IF Len(remoteActions) = 0 THEN << >>
    ELSE <<PayloadsOf(SortByTimestamp(remoteActions))>>

\* faulty variant: no try/catch around the callback
CallbackUncaught(called, throws) == called /\ throws

\* _processRemoteActions: whether an exception of the callback leaves it;
\* try { this.onRemoteActions(payloads) } catch (error) { this._log(...) }
CallbackEscapes(called, throws) == FALSE

\* what a callback throws
CallbackError == [name |-> "Error", fetchWord |-> FALSE, syncFailed |-> FALSE]

\* _fetchWithRetry: the milliseconds it waits after the given attempt failed,
\* Math.pow(2, attempt) * 1000
BackoffDelay(attempt) == (2 ^ attempt) * 1000

\* One fetch attempt of call i rejects (the request or its response is lost):
\* _fetchWithRetry tries again after the backoff delay, or, after the last
\* attempt, throws and sync() rejects.
FetchFail(d, i, err) ==
    /\ i \in 1..Len(calls[d])
    /\ LET c == calls[d][i]
       IN  IF c.attempt < RetryAttempts
           THEN /\ calls' = [calls EXCEPT ![d][i].attempt = @ + 1,
                                          ![d][i].state = "sent",
                                          ![d][i].resp = NoResponse]
                /\ lastOp' = [Op("fetchRetry", d) EXCEPT
                                 !.i = i,
                                 !.delay = BackoffDelay(c.attempt)]
                /\ UNCHANGED <<failBase, syncTimer>>
           ELSE /\ calls' = [calls EXCEPT ![d] = RemoveAt(@, i)]
                /\ lastOp' = [Op("syncNetFail", d) EXCEPT
                                 !.i = i,
                                 !.code = CreateSyncError(err)]
                /\ failBase' = [failBase EXCEPT ![d] =
                       [valid |-> TRUE, uids |-> UidSeq(actionQueue[d])]]
                /\ syncTimer' = [syncTimer EXCEPT ![d] = TimerAfterSync(d, c)]
    /\ UNCHANGED <<now, actionQueue, fullQueue, lastActionId, actionIdCounter,
                   loadState, loadResult, lastExportQueue, chromeStore, storage, nextUid,
                   acked, returned, exportDoc, sinceExport, imported,
                   autoSync, destroyed>>

\* faulty variant: the queue is kept after a successful sync
SyncQueueKept(queue, batch) == queue

\* sync() after a response with response.ok: this.actionQueue = []
SyncQueueAfter(queue, batch) == << >>

\* sync() after a response with response.ok, the callback throwing or not.
\* An exception that left _processRemoteActions would reach the catch of
\* sync() before anything was assigned.
SyncCompletes(d, i, throws) ==
    /\ i \in 1..Len(calls[d])
    /\ calls[d][i].state = "answered"
    /\ ResponseOk(calls[d][i].resp)
    /\ LET c == calls[d][i]
           fq == EnforceFullQueueSize(fullQueue[d] \o actionQueue[d])
           q == SyncQueueAfter(actionQueue[d], c.batch)
           called == CallsOnRemoteActions(c.resp.actions)
       IN  IF CallbackEscapes(called, throws)
           THEN /\ lastOp' = [Op("syncCallbackFail", d) EXCEPT
                                 !.i = i,
                                 !.cb = called,
                                 !.cbArgs = OnRemoteActionsCalls(c.resp.actions),
                                 !.threw = TRUE,
                                 !.code = CreateSyncError(CallbackError)]
                /\ UNCHANGED <<lastActionId, fullQueue, actionQueue,
                               chromeStore, acked, failBase, sinceExport>>
           ELSE /\ lastActionId' = [lastActionId EXCEPT ![d] = c.resp.lastActionId]
                /\ fullQueue' = [fullQueue EXCEPT ![d] = fq]
                /\ actionQueue' = [actionQueue EXCEPT ![d] = q]
                /\ chromeStore' = [chromeStore EXCEPT ![d] =
                       SaveFullQueueToStorage(
                           SaveToStorage(@, q, c.resp.lastActionId,
                                         actionIdCounter[d]), fq)]
                /\ acked' = [acked EXCEPT ![d] =
                       [uids |-> @.uids \cup Uids(c.batch), upTo |-> nextUid,
                        moved |-> @.moved \cup Uids(actionQueue[d])]]
                /\ lastOp' = [Op("syncSuccess", d) EXCEPT
                                 !.i = i,
                                 !.payloads = ProcessRemoteActions(c.resp.actions),
                                 !.cb = called,
                                 !.cbArgs = OnRemoteActionsCalls(c.resp.actions),
                                 !.threw = called /\ throws]
                /\ failBase' = [failBase EXCEPT ![d] = NoBase]
                /\ sinceExport' = [sinceExport EXCEPT ![d] = "changed"]
    /\ calls' = [calls EXCEPT ![d] = RemoveAt(@, i)]
    /\ syncTimer' = [syncTimer EXCEPT ![d] = TimerAfterSync(d, calls[d][i])]
    /\ UNCHANGED <<now, actionIdCounter, loadState, loadResult, lastExportQueue, storage,
                   nextUid, returned, exportDoc, imported, autoSync,
                   destroyed>>

\* sync() after a response with response.ok, with a callback that returns
SyncSuccess(d, i) == SyncCompletes(d, i, FALSE)

\* sync() after a response with !response.ok
SyncRejected(d, i) ==
    /\ i \in 1..Len(calls[d])
    /\ calls[d][i].state = "answered"
    /\ ~ResponseOk(calls[d][i].resp)
    /\ calls' = [calls EXCEPT ![d] = RemoveAt(@, i)]
    /\ lastOp' = [Op("syncRejected", d) EXCEPT
                     !.i = i,
                     !.code = CreateSyncError(StatusError)]
    /\ syncTimer' = [syncTimer EXCEPT ![d] = TimerAfterSync(d, calls[d][i])]
    /\ UNCHANGED <<now, actionQueue, fullQueue, lastActionId, actionIdCounter,
                   loadState, loadResult, lastExportQueue, chromeStore, storage, nextUid,
                   acked, failBase, returned, exportDoc, sinceExport, imported,
                   autoSync, destroyed>>

----------------------------------------------------------------------------
(* Export and import.  A document is what JSON.parse makes of the text:    *)
(* kind "ok" when the text parses and its actions field is an array,       *)
(* "badjson" when JSON.parse throws, "noactions" when actions is missing   *)
(* or not an array.                                                        *)

Document(d, ts, actions, lastId) ==
    [kind |-> "ok", deviceId |-> d, timestamp |-> ts, actions |-> actions,
     lastActionId |-> lastId]

NoDocument == [kind |-> "none", deviceId |-> "d1", timestamp |-> 0,
               actions |-> << >>, lastActionId |-> ZeroId]
BadJson == [NoDocument EXCEPT !.kind = "badjson"]
NoActions == [NoDocument EXCEPT !.kind = "noactions"]
\* a document whose actions is not an array
NotAList == [NoDocument EXCEPT !.kind = "notalist"]

\* faulty variant: the document holds the pending queue only
ExportDataPending(d) ==
    Document(d, now, actionQueue[d], lastActionId[d])

\* export(): the exportData object that is serialized
ExportData(d) ==
    Document(d, now, fullQueue[d] \o actionQueue[d], lastActionId[d])

\* faulty variant: export() empties the pending queue
ExportQueueCleared(queue) == << >>

\* export(): the pending queue it leaves
ExportQueueAfter(queue) == queue

Export(d) ==
    /\ exportDoc' = [exportDoc EXCEPT ![d] = ExportData(d)]
    /\ actionQueue' = [actionQueue EXCEPT ![d] = ExportQueueAfter(@)]
    /\ sinceExport' = [sinceExport EXCEPT ![d] =
           IF @ \in {"clean", "repeated"} THEN "repeated" ELSE "clean"]
    /\ lastOp' = Op("export", d)
    /\ UNCHANGED <<now, fullQueue, lastActionId, actionIdCounter, loadState,
                   loadResult, lastExportQueue, chromeStore, calls, storage, nextUid, acked,
                   failBase, returned, imported, autoSync, syncTimer,
                   destroyed>>

\* import(): the payloads it returns for a well-formed document
ImportPayloads(actions) == PayloadsOf(SortByTimestamp(actions))

\* import(): the watermark afterwards
ImportLastActionId(current, doc) ==
    IF doc.lastActionId # << >> /\ StringGreater(doc.lastActionId, current)
    THEN doc.lastActionId
    ELSE current

NotImported == [done |-> FALSE, actions |-> << >>, payloads |-> << >>]

\* faulty variant: import() appends the actions of the document to the queue
ImportQueueMerged(queue, doc) ==
    IF doc.kind = "ok" THEN queue \o doc.actions ELSE queue

\* import(): the pending queue it leaves
ImportQueueAfter(queue, doc) == queue

\* faulty variant: the actions array is not checked
ImportAcceptsParsed(doc) == doc.kind # "badjson"

\* import(): JSON.parse succeeds and importData.actions is an array
ImportAccepts(doc) == doc.kind = "ok"

Import(d, doc) ==
    /\ actionQueue' = [actionQueue EXCEPT ![d] = ImportQueueAfter(@, doc)]
    /\ IF ImportAccepts(doc)
       THEN /\ lastActionId' = [lastActionId EXCEPT ![d] =
                                   ImportLastActionId(@, doc)]
            /\ imported' = [imported EXCEPT ![d] =
                   [done |-> TRUE, actions |-> doc.actions,
                    payloads |-> ImportPayloads(doc.actions)]]
            /\ lastOp' = [Op("import", d) EXCEPT
                             !.req = doc,
                             !.payloads = ImportPayloads(doc.actions)]
       ELSE /\ lastOp' = [Op("import", d) EXCEPT
                             !.req = doc,
                             !.code = "IMPORT_FAILED"]
            /\ UNCHANGED <<lastActionId, imported>>
    /\ UNCHANGED <<now, fullQueue, actionIdCounter, loadState,
                   loadResult, lastExportQueue, chromeStore, calls, storage, nextUid, acked,
                   failBase, returned, exportDoc, sinceExport,
                   autoSync, syncTimer, destroyed>>

\* clearQueue()
ClearQueue(d) ==
    /\ actionQueue' = [actionQueue EXCEPT ![d] = << >>]
    /\ chromeStore' = [chromeStore EXCEPT ![d] =
           SaveToStorage(@, << >>, lastActionId[d], actionIdCounter[d])]
    /\ failBase' = [failBase EXCEPT ![d] = NoBase]
    /\ sinceExport' = [sinceExport EXCEPT ![d] = "changed"]
    /\ lastOp' = Op("clearQueue", d)
    /\ UNCHANGED <<now, fullQueue, lastActionId, actionIdCounter, loadState,
                   loadResult, lastExportQueue, calls, storage, nextUid, acked, returned,
                   exportDoc, imported, autoSync, syncTimer, destroyed>>

\* _clearStorage: chrome.storage.local.remove([storageKey, fullQueueStorageKey])
ClearStorage(st) == IF st.avail THEN NoStore(TRUE) ELSE st

\* destroy().  Requests in flight are left alone.
Destroy(d) ==
    /\ syncTimer' = [syncTimer EXCEPT ![d] = "none"]
    /\ actionQueue' = [actionQueue EXCEPT ![d] = << >>]
    /\ fullQueue' = [fullQueue EXCEPT ![d] = << >>]
    /\ chromeStore' = [chromeStore EXCEPT ![d] = ClearStorage(@)]
    /\ destroyed' = [destroyed EXCEPT ![d] = TRUE]
    /\ failBase' = [failBase EXCEPT ![d] = NoBase]
    /\ sinceExport' = [sinceExport EXCEPT ![d] = "changed"]
    /\ lastOp' = Op("destroy", d)
    /\ calls' = [calls EXCEPT ![d] =
                    [i \in 1..Len(@) |->
                        [@[i] EXCEPT !.cut = @ \/ calls[d][i].state = "sent"]]]
    /\ UNCHANGED <<now, lastActionId, actionIdCounter, loadState, loadResult, lastExportQueue,
                   storage, nextUid, acked, returned, exportDoc, imported,
                   autoSync>>

----------------------------------------------------------------------------
(* _loadFromStorage after its await: the constructor started it, and it    *)
(* resumes with what chrome.storage.local.get read at that time.           *)

LoadedQueue(queue, r) == IF r.present THEN r.actionQueue ELSE queue

LoadComplete(d) ==
    /\ loadState[d] = "loading"
    /\ loadState' = [loadState EXCEPT ![d] = "ready"]
    /\ LET r == loadResult[d]
       IN  IF r.avail
           THEN /\ actionQueue' = [actionQueue EXCEPT ![d] = LoadedQueue(@, r)]
                /\ lastActionId' = [lastActionId EXCEPT ![d] =
                       IF r.present THEN r.lastActionId ELSE @]
                /\ actionIdCounter' = [actionIdCounter EXCEPT ![d] =
                       IF r.present THEN r.actionIdCounter ELSE @]
                /\ fullQueue' = [fullQueue EXCEPT ![d] =
                       IF r.fullPresent THEN r.fullQueue ELSE << >>]
           ELSE UNCHANGED <<actionQueue, lastActionId, actionIdCounter,
                            fullQueue>>
    /\ failBase' = [failBase EXCEPT ![d] = NoBase]
    /\ sinceExport' = [sinceExport EXCEPT ![d] = "changed"]
    /\ syncTimer' = [syncTimer EXCEPT ![d] =
           IF autoSync[d] THEN StartAutoSync ELSE @]
    /\ lastOp' = Op("loadComplete", d)
    /\ UNCHANGED <<now, loadResult, lastExportQueue, chromeStore, calls, storage, nextUid,
                   acked, returned, exportDoc, imported, autoSync, destroyed>>

----------------------------------------------------------------------------
(* Another device's POST /sync, as the authority sees it: one request with *)
(* watermark w and a batch of that device's own actions, answered at once. *)

\* the watermarks a request may carry
Watermarks ==
    {ZeroId, OtherId}
        \cup {storage.actions[i].serverId : i \in 1..Len(storage.actions)}
        \cup {storage.actions[i].actionId : i \in 1..Len(storage.actions)}

PeerPayload(ctr) == IF ctr = 0 THEN PA ELSE PB

PeerSync(p, w, n, ctr) ==
    /\ nextUid + n <= MaxUid + 1
    /\ Len(storage.actions) + n <= MaxLog
    /\ LET batch == [k \in 1..n |->
                        EnhancedAction(GenerateActionId(now, ctr + k - 1), now,
                                       p, PeerPayload(ctr), nextUid + k - 1)]
           resp == SyncResponse(storage, p, w, batch, now)
       IN  /\ storage' = SyncStorage(storage, p, batch, now)
           /\ lastOp' = [Op("peerSync", p) EXCEPT
                            !.req = [deviceId |-> p, lastActionId |-> w,
                                     actions |-> [isArray |-> TRUE,
                                                  items |-> batch]],
                            !.resp = resp.actions,
                            !.w = w,
                            !.latest = resp.lastActionId]
    /\ nextUid' = nextUid + n
    /\ UNCHANGED <<now, actionQueue, fullQueue, lastActionId, actionIdCounter,
                   loadState, loadResult, lastExportQueue, chromeStore, calls, acked, failBase,
                   returned, exportDoc, sinceExport, imported,
                   autoSync, syncTimer, destroyed>>

----------------------------------------------------------------------------
(* app.post('/sync') for any request body.  deviceId is "" when the body    *)
(* has none; actions is [isArray, items], items being the elements when it *)
(* is an array.                                                            *)

Request(deviceId, lastId, isArray, items) ==
    [deviceId |-> deviceId, lastActionId |-> lastId,
     actions |-> [isArray |-> isArray, items |-> items]]

\* faulty variant: actions is not checked
RequestValidDeviceOnly(req) == req.deviceId # ""

\* the handler's validation: if (!deviceId) ..., if (!Array.isArray(actions))
RequestValid(req) == req.deviceId # "" /\ req.actions.isArray

PostSync(req) ==
    /\ Len(storage.actions) + Len(req.actions.items) <= MaxLog
    /\ nextUid + Len(req.actions.items) <= MaxUid + 1
    /\ LET items == req.actions.items
       IN  IF RequestValid(req)
           THEN LET resp == SyncResponse(storage, req.deviceId,
                                         req.lastActionId, items, now)
                IN  /\ storage' = SyncStorage(storage, req.deviceId, items, now)
                    /\ lastOp' = [Op("postSync", req.deviceId) EXCEPT
                                     !.req = req,
                                     !.status = 200,
                                     !.success = TRUE,
                                     !.resp = resp.actions,
                                     !.w = req.lastActionId,
                                     !.latest = resp.lastActionId]
           ELSE /\ storage' = storage
                /\ lastOp' = [Op("postSync", req.deviceId) EXCEPT
                                 !.req = req,
                                 !.status = 400]
    /\ nextUid' = nextUid + Len(req.actions.items)
    /\ UNCHANGED <<now, actionQueue, fullQueue, lastActionId, actionIdCounter,
                   loadState, loadResult, lastExportQueue, chromeStore, calls, acked, failBase,
                   returned, exportDoc, sinceExport, imported,
                   autoSync, syncTimer, destroyed>>

----------------------------------------------------------------------------
(* The class ActionSync that keeps lastExportQueue (src/actionsync.js from *)
(* line 750): it has no fullQueue and no filterKeys, its export() empties   *)
(* the pending queue after copying it to lastExportQueue, and it has        *)
(* reexportLast().  Its fields are actionQueue, lastExportQueue,            *)
(* lastActionId, actionIdCounter and syncTimer.                             *)

\* isSynced()
IsSynced(d) == Len(actionQueue[d]) = 0

\* _saveToStorage of this class: dataToStore also holds lastExportQueue
BackupSaveToStorage(st, q, leq, w, c) ==
    IF st.avail
    THEN [f \in DOMAIN st \cup {"lastExportQueue"} |->
            IF f = "present" THEN TRUE
            ELSE IF f = "actionQueue" THEN q
            ELSE IF f = "lastExportQueue" THEN leq
            ELSE IF f = "lastActionId" THEN w
            ELSE IF f = "actionIdCounter" THEN c
            ELSE st[f]]
    ELSE st

\* dispatch(action)
BackupDispatch(d, payload) ==
    /\ nextUid <= MaxUid
    /\ LET id == GenerateActionId(now, actionIdCounter[d])
           new == EnhancedAction(id, now, d, payload, nextUid)
           q == EnforceQueueSize(Append(actionQueue[d], new))
       IN  /\ actionQueue' = [actionQueue EXCEPT ![d] = q]
           /\ actionIdCounter' = [actionIdCounter EXCEPT ![d] = @ + 1]
           /\ chromeStore' = [chromeStore EXCEPT ![d] =
                  BackupSaveToStorage(@, q, lastExportQueue[d], lastActionId[d],
                                      actionIdCounter[d] + 1)]
           /\ failBase' = [failBase EXCEPT ![d] =
                  IF @.valid /\ q = Append(actionQueue[d], new)
                  THEN [@ EXCEPT !.uids = Append(@, nextUid)]
                  ELSE NoBase]
           /\ lastOp' = Op("dispatch", d)
    /\ nextUid' = nextUid + 1
    /\ sinceExport' = [sinceExport EXCEPT ![d] = "changed"]
    /\ syncTimer' = [syncTimer EXCEPT ![d] =
           IF autoSync[d] THEN ScheduleSync ELSE @]
    /\ UNCHANGED <<now, fullQueue, lastExportQueue, lastActionId, loadState,
                   loadResult, calls, storage, acked, returned, exportDoc,
                   imported, autoSync, destroyed>>

\* sync() after a response with response.ok: this.actionQueue = []
BackupSyncSuccess(d, i) ==
    /\ i \in 1..Len(calls[d])
    /\ calls[d][i].state = "answered"
    /\ ResponseOk(calls[d][i].resp)
    /\ LET c == calls[d][i]
       IN  /\ lastActionId' = [lastActionId EXCEPT ![d] = c.resp.lastActionId]
           /\ actionQueue' = [actionQueue EXCEPT ![d] = << >>]
           /\ chromeStore' = [chromeStore EXCEPT ![d] =
                  BackupSaveToStorage(@, << >>, lastExportQueue[d],
                                      c.resp.lastActionId, actionIdCounter[d])]
           /\ acked' = [acked EXCEPT ![d] =
                  [uids |-> @.uids \cup Uids(c.batch), upTo |-> nextUid,
                   moved |-> @.moved]]
           /\ lastOp' = [Op("syncSuccess", d) EXCEPT
                            !.i = i,
                            !.payloads = ProcessRemoteActions(c.resp.actions),
                            !.cb = CallsOnRemoteActions(c.resp.actions),
                            !.cbArgs = OnRemoteActionsCalls(c.resp.actions)]
    /\ calls' = [calls EXCEPT ![d] = RemoveAt(@, i)]
    /\ syncTimer' = [syncTimer EXCEPT ![d] = TimerAfterSync(d, calls[d][i])]
    /\ failBase' = [failBase EXCEPT ![d] = NoBase]
    /\ sinceExport' = [sinceExport EXCEPT ![d] = "changed"]
    /\ UNCHANGED <<now, fullQueue, lastExportQueue, actionIdCounter, loadState,
                   loadResult, storage, nextUid, returned, exportDoc, imported,
                   autoSync, destroyed>>

\* faulty variant: export() keeps the pending queue
BackupExportQueueKept(queue) == queue

\* export(): the pending queue it leaves, this.actionQueue = []
BackupExportQueueAfter(queue) == << >>

\* export(): lastExportQueue = [...actionQueue], the document, the clearing
BackupExport(d) ==
    /\ lastExportQueue' = [lastExportQueue EXCEPT ![d] = actionQueue[d]]
    /\ exportDoc' = [exportDoc EXCEPT ![d] =
           Document(d, now, actionQueue[d], lastActionId[d])]
    /\ actionQueue' = [actionQueue EXCEPT ![d] = BackupExportQueueAfter(@)]
    /\ chromeStore' = [chromeStore EXCEPT ![d] =
           BackupSaveToStorage(@, BackupExportQueueAfter(actionQueue[d]),
                               actionQueue[d], lastActionId[d],
                               actionIdCounter[d])]
    /\ failBase' = [failBase EXCEPT ![d] = NoBase]
    /\ sinceExport' = [sinceExport EXCEPT ![d] =
           IF @ \in {"clean", "repeated"} THEN "repeated" ELSE "clean"]
    /\ lastOp' = Op("exportAndClear", d)
    /\ UNCHANGED <<now, fullQueue, lastActionId, actionIdCounter, loadState,
                   loadResult, calls, storage, nextUid, acked, returned,
                   imported, autoSync, syncTimer, destroyed>>

\* reexportLast(): throws 'No previous export to re-export' when
\* lastExportQueue is empty; else the document it builds and returns
ReexportLast(d) ==
    /\ lastOp' = IF Len(lastExportQueue[d]) = 0
                 THEN [Op("reexportLast", d) EXCEPT !.code = "NoPriorExport"]
                 ELSE [Op("reexportLast", d) EXCEPT
                          !.resp = Document(d, now, lastExportQueue[d],
                                            lastActionId[d])]
    /\ UNCHANGED <<now, actionQueue, fullQueue, lastExportQueue, lastActionId,
                   actionIdCounter, loadState, loadResult, chromeStore, calls,
                   storage, nextUid, acked, failBase, returned, exportDoc,
                   sinceExport, imported, autoSync, syncTimer, destroyed>>

----------------------------------------------------------------------------
(* Initial states *)

EmptyStorage ==
    [actions |-> << >>, deviceLastSync |-> [d \in Devices \cup Peers |-> 0],
     actionCounter |-> 0]

InitFields ==
    /\ actionQueue = [d \in Devices |-> << >>]
    /\ fullQueue = [d \in Devices |-> << >>]
    /\ lastExportQueue = [d \in Devices |-> << >>]
    /\ lastActionId = [d \in Devices |-> ZeroId]
    /\ calls = [d \in Devices |-> << >>]
    /\ storage = EmptyStorage
    /\ nextUid = 1
    /\ lastOp = Op("init", "d1")
    /\ acked = [d \in Devices |-> [uids |-> {}, upTo |-> 0, moved |-> {}]]
    /\ failBase = [d \in Devices |-> NoBase]
    /\ returned = [d \in Devices |-> [u \in 0..(MaxUid + 1) |-> 0]]
    /\ exportDoc = [d \in Devices |-> NoDocument]
    /\ sinceExport = [d \in Devices |-> "never"]
    /\ imported = [d \in Devices |-> NotImported]
    /\ destroyed = [d \in Devices |-> FALSE]

InitCommon ==
    /\ now = 1
    /\ actionIdCounter = [d \in Devices |-> 0]
    /\ InitFields

\* every instance has completed its initialization, without persistence
InitReady ==
    /\ InitCommon
    /\ chromeStore = [d \in Devices |-> NoStore(FALSE)]
    /\ loadResult = chromeStore
    /\ loadState = [d \in Devices |-> "ready"]
    /\ autoSync = [d \in Devices |-> FALSE]
    /\ syncTimer = [d \in Devices |-> "none"]

DispatchAny(d) ==
    \E payload \in Payloads, keys \in FilterKeyLists : Dispatch(d, payload, keys, 0)

ServerSyncAny(d) == \E i \in 1..Len(calls[d]) : ServerSync(d, i)
HttpErrorAny(d) == \E i \in 1..Len(calls[d]) : HttpError(d, i)
FetchFailAny(d) ==
    \E i \in 1..Len(calls[d]), err \in FetchErrors : FetchFail(d, i, err)
SyncSuccessAny(d) == \E i \in 1..Len(calls[d]) : SyncSuccess(d, i)
SyncRejectedAny(d) == \E i \in 1..Len(calls[d]) : SyncRejected(d, i)
\* another device submits one action
PeerSubmit(p) == \E ctr \in {0, 1} : PeerSync(p, ZeroId, 1, ctr)

----------------------------------------------------------------------------
(* Spec: the sync round trip.  One client instance, d1, with autoSync off, *)
(* dispatches and syncs against the authority, which another device, d2,   *)
(* also talks to.                                                          *)

Init == InitReady

Next ==
    \/ Tick
    \/ DispatchAny("d1")
    \/ SyncStart("d1", MaxInflight)
    \/ ServerSyncAny("d1")
    \/ HttpErrorAny("d1")
    \/ FetchFailAny("d1")
    \/ SyncSuccessAny("d1")
    \/ SyncRejectedAny("d1")
    \/ PeerSubmit("d2")

Spec == Init /\ [][Next]_vars

----------------------------------------------------------------------------
(* SpecAuthority: the authority alone, answering the POST /sync requests   *)
(* of two devices that may carry any watermark and up to MaxBatch actions. *)

RawSync(p) ==
    \E w \in Watermarks, n \in 0..MaxBatch, ctr \in {0, 1} : PeerSync(p, w, n, ctr)

NextAuthority ==
    \/ Tick
    \/ RawSync("d1")
    \/ RawSync("d2")

SpecAuthority == InitReady /\ [][NextAuthority]_vars

----------------------------------------------------------------------------
(* SpecNet: two client instances and the authority, every request being   *)
(* answered successfully.  d1 dispatches and syncs, one call at a time; d2 *)
(* only receives, and its sync() may be called while an earlier call of    *)
(* the same instance is still in flight.                                   *)

DispatchPlain(d) == Dispatch(d, PA, << >>, 0)
ServerSyncCountingAny(d) == \E i \in 1..Len(calls[d]) : ServerSyncCounting(d, i)

NextNet ==
    \/ DispatchPlain("d1")
    \/ SyncStart("d1", MaxInflight)
    \/ SyncStart("d2", MaxOverlap)
    \/ \E d \in Devices :
        \/ ServerSyncCountingAny(d)
        \/ SyncSuccessAny(d)

SpecNet == InitReady /\ [][NextNet]_vars

----------------------------------------------------------------------------
(* SpecLife: the life of one instance, d1, from its construction: the load *)
(* of persisted state is pending, and dispatch, sync, clearQueue and       *)
(* import may run before or after it completes.                            *)

InitLife ==
    /\ InitCommon
    /\ chromeStore \in {[d \in Devices |-> IF d = "d1" THEN s ELSE NoStore(FALSE)] :
                           s \in {NoStore(FALSE), NoStore(TRUE), PreviousSession("d1")}}
    /\ loadResult = chromeStore
    /\ loadState = [d \in Devices |-> IF d = "d1" THEN "loading" ELSE "ready"]
    /\ autoSync = [d \in Devices |-> FALSE]
    /\ syncTimer = [d \in Devices |-> "none"]

\* a document import() rejects, and the document of another device that
\* carries a later watermark and no actions
ImportDocs == {BadJson, Document("d2", now, << >>, OtherId)}

ImportAny(d) == \E doc \in ImportDocs : Import(d, doc)

\* dispatch of one payload, with and without filter keys
DispatchSame(d) == \E keys \in FilterKeyLists : Dispatch(d, PA, keys, 0)

NextLife ==
    \/ LoadComplete("d1")
    \/ DispatchSame("d1")
    \/ SyncStart("d1", MaxInflight)
    \/ ServerSyncAny("d1")
    \/ HttpErrorAny("d1")
    \/ SyncSuccessAny("d1")
    \/ SyncRejectedAny("d1")
    \/ ClearQueue("d1")
    \/ ImportAny("d1")

SpecLife == InitLife /\ [][NextLife]_vars

----------------------------------------------------------------------------
(* SpecExport: one initialized instance whose user exports and imports     *)
(* between dispatches, syncs (accepted or rejected) and clears.            *)

NextExport ==
    \/ DispatchAny("d1")
    \/ SyncStart("d1", MaxInflight)
    \/ ServerSyncAny("d1")
    \/ HttpErrorAny("d1")
    \/ SyncSuccessAny("d1")
    \/ SyncRejectedAny("d1")
    \/ ClearQueue("d1")
    \/ Export("d1")
    \/ ImportAny("d1")

SpecExport == InitReady /\ [][NextExport]_vars

----------------------------------------------------------------------------
(* SpecImport: import() as a function of its document.  Two instances      *)
(* import documents whose actions array is any arrangement of up to        *)
(* MaxImport distinct actions that d2 dispatched at the times 1..MaxTime   *)
(* with the counters 0 and 1, or a document import() rejects.              *)

ExportedAction(ts, ctr) ==
    EnhancedAction(GenerateActionId(ts, ctr), ts, "d2", PeerPayload(ctr),
                   2 * (ts - 1) + ctr + 1)

ExportedActions == {ExportedAction(ts, ctr) : ts \in 1..MaxTime, ctr \in {0, 1}}

Arrangements ==
    {a \in UNION {[1..n -> ExportedActions] : n \in 0..MaxImport} :
        \A i, j \in 1..Len(a) : a[i] = a[j] => i = j}

ImportInputs ==
    {BadJson, NoActions} \cup {Document("d2", now, a, ZeroId) : a \in Arrangements}

ImportInput(d) == \E doc \in ImportInputs : Import(d, doc)

NextImport ==
    \/ ImportInput("d1")
    \/ ImportInput("d2")

SpecImport == InitReady /\ [][NextImport]_vars

----------------------------------------------------------------------------
(* SpecRead: one initialized instance that dispatches, syncs and exports,  *)
(* and imports documents it rejects, its own last export, and a document   *)
(* of d2 whose action has the type and id of the locally dispatched ones.  *)

ReadDocs(d) ==
    {BadJson, NoActions,
     Document("d2", now, <<ExportedAction(1, 0)>>, OtherId)}
        \cup (IF exportDoc[d].kind = "ok" THEN {exportDoc[d]} ELSE {})

ImportRead(d) == \E doc \in ReadDocs(d) : Import(d, doc)

NextRead ==
    \/ DispatchPlain("d1")
    \/ SyncStart("d1", MaxInflight)
    \/ ServerSyncAny("d1")
    \/ SyncSuccessAny("d1")
    \/ Export("d1")
    \/ ImportRead("d1")

SpecRead == InitReady /\ [][NextRead]_vars

----------------------------------------------------------------------------
(* SpecQueue: the pending queue of one instance, d1, from its construction *)
(* (with no persisted state, or with the state of a session that had a     *)
(* larger maxQueueSize) under dispatches of payloads that have or lack the *)
(* filter keys.                                                            *)

InitQueue ==
    /\ InitCommon
    /\ chromeStore \in {[d \in Devices |-> IF d = "d1" THEN s ELSE NoStore(FALSE)] :
                           s \in {NoStore(FALSE), LargerSession("d1")}}
    /\ loadResult = chromeStore
    /\ loadState = [d \in Devices |-> IF d = "d1" THEN "loading" ELSE "ready"]
    /\ autoSync = [d \in Devices |-> FALSE]
    /\ syncTimer = [d \in Devices |-> "none"]

DedupPayloads == {PA, PB, PC, PD}
DedupKeyLists == {<< >>, <<"type">>, <<"type", "id">>}

DispatchKeys(d) ==
    \E payload \in DedupPayloads, keys \in DedupKeyLists :
        Dispatch(d, payload, keys, 0)

NextQueue ==
    \/ LoadComplete("d1")
    \/ DispatchKeys("d1")

SpecQueue == InitQueue /\ [][NextQueue]_vars

----------------------------------------------------------------------------
(* SpecRemote: sync() as a function of the actions array of the response.  *)
(* d1 dispatches and syncs, and each response carries any arrangement of   *)
(* up to MaxImport distinct actions of another device, dispatched at the   *)
(* times 1..MaxTime with the counters 0 and 1.                             *)

ResponseArrivesAny(d) ==
    \E i \in 1..Len(calls[d]), a \in Arrangements : ResponseArrives(d, i, a)

NextRemote ==
    \/ DispatchPlain("d1")
    \/ SyncStart("d1", MaxInflight)
    \/ ResponseArrivesAny("d1")
    \/ SyncSuccessAny("d1")

SpecRemote == InitReady /\ [][NextRemote]_vars

----------------------------------------------------------------------------
(* SpecCallback: sync() and the onRemoteActions callback.  d1 dispatches    *)
(* and syncs; its request is answered by the authority, which d2 also      *)
(* submits to, or with an error status, or not at all; the callback throws *)
(* or returns.                                                             *)

SyncCompletesAny(d) ==
    \E i \in 1..Len(calls[d]), throws \in BOOLEAN : SyncCompletes(d, i, throws)

NextCallback ==
    \/ DispatchPlain("d1")
    \/ SyncStart("d1", MaxInflight)
    \/ PeerSubmit("d2")
    \/ ServerSyncAny("d1")
    \/ HttpErrorAny("d1")
    \/ FetchFailAny("d1")
    \/ SyncCompletesAny("d1")
    \/ SyncRejectedAny("d1")

SpecCallback == InitReady /\ [][NextCallback]_vars

----------------------------------------------------------------------------
(* SpecPost: the authority and every kind of request body: with or without *)
(* a deviceId, with an actions array of up to MaxBatch elements, each a     *)
(* whole action or one that lacks its actionId, timestamp or payload, or   *)
(* with actions that is no array.                                          *)

\* the action without field f
Without(action, f) == [g \in DOMAIN action \ {f} |-> action[g]]

\* the k-th element of a request of device p: complete, or lacking a field
RequestItems(p, k) ==
    LET whole == EnhancedAction(GenerateActionId(now, k - 1), now, p,
                                PeerPayload(k - 1), nextUid + k - 1)
    IN  {whole} \cup {Without(whole, f) : f \in {"actionId", "timestamp", "payload"}}

\* the arrays of up to MaxBatch elements a request of device p may carry
ItemLists(p) ==
    UNION {{it \in [1..n -> UNION {RequestItems(p, k) : k \in 1..n}] :
               \A k \in 1..n : it[k] \in RequestItems(p, k)} :
           n \in 0..MaxBatch}

PostBodies ==
    UNION {{Request(p, w, TRUE, items) :
               w \in {ZeroId, GetLatestActionId(storage)},
               items \in ItemLists(p)}
           \cup {Request(p, ZeroId, FALSE, << >>)} :
           p \in Devices \cup {""}}

PostSyncAny == \E req \in PostBodies : PostSync(req)

NextPost == PostSyncAny

SpecPost == InitReady /\ [][NextPost]_vars

----------------------------------------------------------------------------
(* SpecIds: _generateActionId as a function of the clock and the counter.  *)
(* The clock does not go backwards.  It starts at values whose low 16 bits *)
(* are small, 0x7FFF, 0x8000, 0xFFFF and 0 (the high bits of a timestamp   *)
(* only add to the first eight digits), and the counter at 0, 1 or 0xFFFF. *)

IdClockStarts == {1, SignBit - 1, SignBit, CounterMask - 1, CounterMask}
IdCounterStarts == {0, 1, CounterMask - 1}

InitIds ==
    /\ now \in IdClockStarts
    /\ actionIdCounter \in {[d \in Devices |-> IF d = "d1" THEN c ELSE 0] :
                               c \in IdCounterStarts}
    /\ InitFields
    /\ chromeStore = [d \in Devices |-> NoStore(FALSE)]
    /\ loadResult = chromeStore
    /\ loadState = [d \in Devices |-> "ready"]
    /\ autoSync = [d \in Devices |-> FALSE]
    /\ syncTimer = [d \in Devices |-> "none"]

NextIds == \E adv \in {0, 1} : GenerateNextId("d1", adv)

SpecIds == InitIds /\ [][NextIds]_vars

----------------------------------------------------------------------------
(* SpecDestroy: d1 is constructed with autoSync, a serverUrl and an empty   *)
(* chrome.storage.local, and is destroyed at any moment: before its        *)
(* initialization has completed, with a timeout pending, or with a request *)
(* of sync() in flight.  Its owner calls nothing but destroy() on an       *)
(* instance it has destroyed.                                              *)

InitDestroy ==
    /\ InitCommon
    /\ chromeStore = [d \in Devices |-> NoStore(d = "d1")]
    /\ loadResult = chromeStore
    /\ loadState = [d \in Devices |-> IF d = "d1" THEN "loading" ELSE "ready"]
    /\ autoSync = [d \in Devices |-> d = "d1"]
    /\ syncTimer = [d \in Devices |-> "none"]

DispatchLive(d) == ~destroyed[d] /\ DispatchPlain(d)
SyncStartLive(d) == ~destroyed[d] /\ SyncStart(d, MaxInflight)

NextDestroy ==
    \/ LoadComplete("d1")
    \/ DispatchLive("d1")
    \/ SyncStartLive("d1")
    \/ TimerFire("d1", MaxInflight)
    \/ ResponseArrivesAny("d1")
    \/ SyncSuccessAny("d1")
    \/ Destroy("d1")

SpecDestroy == InitDestroy /\ [][NextDestroy]_vars

----------------------------------------------------------------------------
(* SpecAuto: d1 is constructed with autoSync and a serverUrl and without   *)
(* persistence.  Nobody calls sync(): only the timeouts do.  A timeout     *)
(* fires at any moment after it was set, and a request is answered at any  *)
(* moment after it was sent (fetch has no time limit).                     *)

InitAuto ==
    /\ InitCommon
    /\ chromeStore = [d \in Devices |-> NoStore(FALSE)]
    /\ loadResult = chromeStore
    /\ loadState = [d \in Devices |-> IF d = "d1" THEN "loading" ELSE "ready"]
    /\ autoSync = [d \in Devices |-> d = "d1"]
    /\ syncTimer = [d \in Devices |-> "none"]

NextAuto ==
    \/ LoadComplete("d1")
    \/ DispatchPlain("d1")
    \/ TimerFire("d1", MaxOverlap)
    \/ ServerSyncAny("d1")
    \/ HttpErrorAny("d1")
    \/ FetchFailAny("d1")
    \/ SyncSuccessAny("d1")
    \/ SyncRejectedAny("d1")

SpecAuto == InitAuto /\ [][NextAuto]_vars

----------------------------------------------------------------------------
(* SpecArgs: dispatch with arguments of every type, on an instance with    *)
(* autoSync, before and after its initialization has completed.            *)

\* { ...['x'] }
PArray == "0" :> "x"

ActionArgs ==
    {Argument("object", PA), Argument("object", PB), Argument("array", PArray),
     Argument("null", PD), Argument("string", PD), Argument("number", PD)}

KeysArgs ==
    {Argument("strings", << >>), Argument("strings", <<"type", "id">>),
     Argument("numbers", <<"1">>), Argument("string", << >>),
     Argument("null", << >>)}

DispatchCallAny(d) ==
    \E action \in ActionArgs, filterKeys \in KeysArgs :
        DispatchCall(d, action, filterKeys)

NextArgs ==
    \/ LoadComplete("d1")
    \/ DispatchCallAny("d1")
    \/ TimerFire("d1", MaxInflight)

SpecArgs == InitAuto /\ [][NextArgs]_vars

----------------------------------------------------------------------------
(* SpecMalformed: import() of documents it must reject.  d1 dispatches and *)
(* syncs, so that both its queues fill, and imports text that is no JSON,  *)
(* JSON without actions or with actions that is no array, with or without  *)
(* a lastActionId above its own, or a well-formed document of d2.          *)

MalformedDocs ==
    {[doc EXCEPT !.lastActionId = w] :
        doc \in {BadJson, NoActions, NotAList}, w \in {ZeroId, OtherId}}

ImportMalformed(d) ==
    \E doc \in MalformedDocs \cup {Document("d2", now, << >>, OtherId)} :
        Import(d, doc)

NextMalformed ==
    \/ DispatchPlain("d1")
    \/ SyncStart("d1", MaxInflight)
    \/ ServerSyncAny("d1")
    \/ SyncSuccessAny("d1")
    \/ ImportMalformed("d1")

SpecMalformed == InitReady /\ [][NextMalformed]_vars

----------------------------------------------------------------------------
(* SpecWatermark: import() as a function of the two watermarks.  d1 and d2  *)
(* import documents without actions whose lastActionId is '0', a serverId   *)
(* of the authority (the log entries 1, 2, 9, 10, 11, received at the      *)
(* times 1 and MaxTime) or an actionId; an instance's own watermark is what *)
(* its imports before made it.  One instance sees watermarks of one kind.   *)

\* the sequence numbers of the serverIds, paired with the time of receipt
WatermarkEntries == {<<1, 1>>, <<1, 2>>, <<1, 9>>, <<1, 10>>, <<MaxTime, 11>>}

ServerWatermarks == {GenerateServerId(e[1], e[2]) : e \in WatermarkEntries}

HexWatermarks == {GenerateActionId(ts, ctr) : ts \in 1..MaxTime, ctr \in {0, 1}}

\* the watermarks that may meet the watermark current in one instance
WatermarksWith(current) ==
    {ZeroId}
        \cup (IF current \in HexWatermarks THEN {} ELSE ServerWatermarks)
        \cup (IF current \in ServerWatermarks THEN {} ELSE HexWatermarks)

ImportWatermark(d) ==
    \E w \in WatermarksWith(lastActionId[d]) :
        Import(d, Document("d2", now, << >>, w))

NextWatermark ==
    \/ Tick
    \/ ImportWatermark("d1")
    \/ ImportWatermark("d2")

SpecWatermark == InitReady /\ [][NextWatermark]_vars

----------------------------------------------------------------------------
(* SpecBackup: one initialized instance, d1, of the class that keeps        *)
(* lastExportQueue.  It dispatches, syncs with the authority, which d2 also *)
(* submits to, exports and re-exports.                                      *)

BackupSyncSuccessAny(d) == \E i \in 1..Len(calls[d]) : BackupSyncSuccess(d, i)

NextBackup ==
    \/ BackupDispatch("d1", PA)
    \/ SyncStart("d1", MaxInflight)
    \/ ServerSyncAny("d1")
    \/ PeerSubmit("d2")
    \/ BackupSyncSuccessAny("d1")
    \/ BackupExport("d1")
    \/ ReexportLast("d1")

SpecBackup == InitReady /\ [][NextBackup]_vars

----------------------------------------------------------------------------
(* SpecHistory: the history of one initialized instance, d1, that           *)
(* dispatches up to HistoryDispatches numbered payloads, enough to fill     *)
(* fullQueue beyond its limit, syncs (every response is ok and carries no   *)
(* remote action) and exports at any moment; d2, which dispatches nothing,  *)
(* imports d1's last document.                                              *)

\* the records fullQueue holds at most: maxQueueSize * 5
MaxFullQueueSize == MaxQueueSize * FullQueueFactor

HistoryDispatches == MaxFullQueueSize + 2

\* { type: 'ACTION', n: n }
NumberedPayload(n) == [type |-> "ACTION", n |-> n]

\* the user dispatches the first MaxUid records at any moment, the later
\* ones while the pending queue has room and no sync() is in flight
DispatchNumbered(d) ==
    /\ \/ nextUid <= MaxUid
       \/ Len(actionQueue[d]) < MaxQueueSize /\ calls[d] = << >>
    /\ DispatchWithin(d, NumberedPayload(nextUid), << >>, 0, HistoryDispatches)

ResponseEmptyAny(d) == \E i \in 1..Len(calls[d]) : ResponseArrives(d, i, << >>)

ImportExported(d, from) ==
    /\ exportDoc[from].kind = "ok"
    /\ Import(d, exportDoc[from])

NextHistory ==
    \/ DispatchNumbered("d1")
    \/ SyncStart("d1", MaxInflight)
    \/ ResponseEmptyAny("d1")
    \/ SyncSuccessAny("d1")
    \/ Export("d1")
    \/ ImportExported("d2", "d1")

SpecHistory == InitReady /\ [][NextHistory]_vars

----------------------------------------------------------------------------
(* SpecClock: two initialized instances dispatch while the clock runs; the  *)
(* clock may advance by a millisecond between the Date.now() of             *)
(* _generateActionId and the Date.now() of dispatch.                        *)

DispatchClock(d) ==
    \E payload \in Payloads, keys \in FilterKeyLists, adv \in {0, 1} :
        Dispatch(d, payload, keys, adv)

NextClock ==
    \/ Tick
    \/ DispatchClock("d1")
    \/ DispatchClock("d2")

SpecClock == InitReady /\ [][NextClock]_vars

----------------------------------------------------------------------------
(* SpecShare: a document passes from one device to another.  d2 may       *)
(* dispatch one record first, syncs and exports; d1 imports the last       *)
(* document of d2 and syncs; a third device, d3, submits records to the    *)
(* authority.  Every request is answered successfully, and each instance   *)
(* awaits its sync() calls.                                                *)

\* the first thing that happens is a dispatch on d
DispatchFirst(d) == nextUid = 1 /\ DispatchPlain(d)

\* device p submits one action, its counter being the number of the action
PeerSubmitNext(p) == PeerSync(p, ZeroId, 1, nextUid)

NextShare ==
    \/ PeerSubmitNext("d3")
    \/ DispatchFirst("d2")
    \/ Export("d2")
    \/ ImportExported("d1", "d2")
    \/ ServerSyncAny("d2")
    \/ ServerSyncCountingAny("d1")
    \/ \E d \in Devices :
        \/ SyncStart(d, MaxInflight)
        \/ SyncSuccessAny(d)

SpecShare == InitReady /\ [][NextShare]_vars

----------------------------------------------------------------------------
(* SpecAutoLive: the instance of SpecAuto with the scheduling of its host:  *)
(* a timeout that is pending fires, the load of persisted state completes, *)
(* the authority answers a request that reaches it, and the response is    *)
(* handled.  The authority is unreachable, at the transport's choice,      *)
(* until the clock reaches MaxTime and reachable from then on: a fetch may *)
(* fail before the request has reached the authority only until then.  The *)
(* user dispatches at any moment (no fairness) and never calls sync().     *)

Unreachable == now < MaxTime

FetchFailUnreachable(d) ==
    /\ Unreachable
    /\ \E i \in 1..Len(calls[d]), err \in FetchErrors :
          calls[d][i].state = "sent" /\ FetchFail(d, i, err)

NextAutoLive ==
    \/ Tick
    \/ LoadComplete("d1")
    \/ DispatchPlain("d1")
    \/ TimerFire("d1", MaxInflight)
    \/ FetchFailUnreachable("d1")
    \/ ServerSyncAny("d1")
    \/ SyncSuccessAny("d1")

SpecAutoLive ==
    /\ InitAuto
    /\ [][NextAutoLive]_vars
    /\ WF_vars(Tick)
    /\ WF_vars(LoadComplete("d1"))
    /\ WF_vars(TimerFire("d1", MaxInflight))
    /\ WF_vars(ServerSyncAny("d1"))
    /\ WF_vars(SyncSuccessAny("d1"))

----------------------------------------------------------------------------
(* Claims checked under Spec *)

\* the sync() invocation of device d that the last step started or completed
LastCall(d) == calls[d][lastOp.i]

\* C1: No resend after success.  Right after a sync() of a device completes
\* successfully its pending queue is empty; the pending queue, and so the
\* batch of every sync() started later, holds no action that was in the batch
\* of a sync() that succeeded, and holds only actions dispatched after the
\* last success (none, when nothing was dispatched in between).
C1_NoResendAfterSuccess ==
    \A d \in Devices :
        /\ (lastOp.op = "syncSuccess" /\ lastOp.dev = d) => Len(actionQueue[d]) = 0
        /\ Uids(actionQueue[d]) \cap acked[d].uids = {}
        /\ \A u \in Uids(actionQueue[d]) : u >= acked[d].upTo
        /\ (lastOp.op = "syncStart" /\ lastOp.dev = d) =>
              /\ Uids(LastCall(d).batch) \cap acked[d].uids = {}
              /\ \A u \in Uids(LastCall(d).batch) : u >= acked[d].upTo

\* C1 witness: two actions were sent by a sync() that succeeded, and the next
\* sync() has just started with an empty batch.
C1_Witness ==
    /\ lastOp.op = "syncStart" /\ lastOp.dev = "d1"
    /\ Cardinality(acked["d1"].uids) >= 2
    /\ LastCall("d1").batch = << >>

\* C2: Retry preserves the batch.  The step in which the last transport
\* attempt of a sync() fails (sync() rejects), and every failed attempt before
\* it, leaves the pending queue, the synced history and the watermark as they
\* were; and the batch of a sync() started after such a failure is the
\* actions queued at the failure followed by the actions dispatched since, in
\* dispatch order.
C2_RetryPreservesBatch ==
    [][\A d \in Devices :
          /\ (lastOp'.op \in {"syncNetFail", "fetchRetry"} /\ lastOp'.dev = d) =>
                /\ actionQueue'[d] = actionQueue[d]
                /\ fullQueue'[d] = fullQueue[d]
                /\ lastActionId'[d] = lastActionId[d]
                /\ lastOp'.op = "syncNetFail" =>
                      /\ lastOp'.code \in {"NETWORK_ERROR", "UNKNOWN_ERROR"}
                      /\ calls'[d] = RemoveAt(calls[d], lastOp'.i)
          /\ (lastOp'.op = "syncStart" /\ lastOp'.dev = d /\ failBase[d].valid) =>
                UidSeq(calls'[d][lastOp'.i].batch) = failBase[d].uids
      ]_vars

\* C2 witness: after a sync() failed with one action queued, a second action
\* was dispatched and the authority has accepted a request carrying both.
C2_Witness ==
    /\ lastOp.op = "serverSync" /\ lastOp.dev = "d1"
    /\ failBase["d1"].valid
    /\ Len(failBase["d1"].uids) = 2
    /\ ResponseOk(LastCall("d1").resp)
    /\ UidSeq(LastCall("d1").batch) = failBase["d1"].uids

\* C3: a sync() whose request was answered with a non-success status fails
\* with the error code of a rejected sync (INVALID_RESPONSE), and completing it
\* changes neither the pending queue, the synced history, the watermark nor
\* the persisted state, and does not invoke the remote-payload callback.
C3_RejectedSyncMutatesNothing ==
    [][\A d \in Devices : \A i \in 1..Len(calls[d]) :
          (/\ calls[d][i].state = "answered"
           /\ ~calls[d][i].resp.ok
           /\ lastOp'.dev = d /\ lastOp'.i = i
           /\ lastOp'.op \in {"syncSuccess", "syncRejected"}) =>
              /\ lastOp'.op = "syncRejected"
              /\ lastOp'.code = "INVALID_RESPONSE"
              /\ ~lastOp'.cb
              /\ lastOp'.payloads = << >>
              /\ actionQueue'[d] = actionQueue[d]
              /\ fullQueue'[d] = fullQueue[d]
              /\ lastActionId'[d] = lastActionId[d]
              /\ chromeStore'[d] = chromeStore[d]
      ]_vars

\* C3 witness: a sync() was rejected while two actions were pending and the
\* authority held an action of another device.
C3_Witness ==
    /\ lastOp.op = "syncRejected" /\ lastOp.dev = "d1"
    /\ Len(actionQueue["d1"]) = 2
    /\ \E k \in 1..Len(storage.actions) : storage.actions[k].sourceDevice = "d2"

\* C4 (as claimed): a successful sync() removes from the pending queue only
\* the actions of the batch it sent; an action dispatched while the request
\* was in flight is still pending afterwards.
C4_OnlySentRemoved ==
    [][\A d \in Devices :
          (lastOp'.op = "syncSuccess" /\ lastOp'.dev = d) =>
              \A k \in 1..Len(actionQueue[d]) :
                  actionQueue[d][k].uid \notin Uids(calls[d][lastOp'.i].batch)
                      => actionQueue[d][k] \in Range(actionQueue'[d])
      ]_vars

----------------------------------------------------------------------------
(* Claims checked under SpecNet and SpecAuthority *)

\* the actions device d has submitted to the authority
SubmittedBy(d) ==
    {storage.actions[k].uid :
        k \in {j \in 1..Len(storage.actions) : storage.actions[j].sourceDevice = d}}

\* C5 (as claimed): every action submitted by one device is returned to each
\* other device exactly once: no action is in two responses to the same
\* device, and once the authority has answered a request of a device, every
\* action of the other devices in the log has been returned to it.
C5_ExactlyOnce ==
    \A d \in Devices :
        /\ \A u \in DOMAIN returned[d] : returned[d][u] <= 1
        /\ (lastOp.op = "serverSync" /\ lastOp.dev = d) =>
              \A e \in Devices \ {d} : \A u \in SubmittedBy(e) : returned[d][u] >= 1

\* C6: No self-echo.  The response to a request of device D, whatever its
\* watermark, holds no action that D submitted, the actions of that same
\* request included.
C6_NoSelfEcho ==
    /\ lastOp.op = "peerSync" =>
          Uids(lastOp.resp) \cap SubmittedBy(lastOp.dev) = {}
    /\ \A d \in Devices : \A i \in 1..Len(calls[d]) :
          calls[d][i].state = "answered" =>
              Uids(calls[d][i].resp.actions) \cap SubmittedBy(d) = {}

\* C6 witness: d1 submitted the first and the third action of the log, d2 the
\* second, and a request of d1 has just been answered with d2's action alone:
\* its watermark was older than d1's own submissions.
C6_Witness ==
    /\ lastOp.op = "peerSync" /\ lastOp.dev = "d1"
    /\ Len(storage.actions) = 3
    /\ storage.actions[1].sourceDevice = "d1"
    /\ storage.actions[2].sourceDevice = "d2"
    /\ storage.actions[3].sourceDevice = "d1"
    /\ UidSeq(lastOp.resp) = <<storage.actions[2].uid>>

----------------------------------------------------------------------------
(* Claims checked under SpecLife and SpecExport *)

\* C8 (as claimed): an action leaves the pending queue of a live instance
\* only in a step that completes a sync successfully, clears the queue, or
\* appends (dedup compaction, eviction of the oldest); never in an export,
\* an import, a failed or rejected sync, or the load of persisted state.
C8_LeavesOnlyBySyncClearEvict ==
    [][\A d \in Devices :
          ~(Uids(actionQueue[d]) \subseteq Uids(actionQueue'[d])) =>
              /\ lastOp'.dev = d
              /\ lastOp'.op \in {"syncSuccess", "clearQueue", "dispatch"}
      ]_vars

----------------------------------------------------------------------------
(* Claims checked under SpecImport *)

\* C10 (as claimed): deterministic replay.  Whenever two instances have
\* imported documents that hold the same set of actions, in whatever order
\* of the actions array, import() returned the same sequence of payloads to
\* both, actions with the same millisecond timestamp included.
C10_DeterministicReplay ==
    \A d, e \in Devices :
        (/\ imported[d].done /\ imported[e].done
         /\ Len(imported[d].actions) = Len(imported[e].actions)
         /\ Range(imported[d].actions) = Range(imported[e].actions))
            => imported[d].payloads = imported[e].payloads

----------------------------------------------------------------------------
(* Claims checked under SpecAuto *)

\* C7 (as claimed): in auto-sync mode at most one sync() round trip of an
\* instance is in progress at any time: a timeout that fires while a sync
\* is in flight starts no second one.
C7_OneSyncInProgress ==
    \A d \in Devices : autoSync[d] => Len(calls[d]) <= 1

----------------------------------------------------------------------------
(* Claims checked under SpecRead *)

----------------------------------------------------------------------------
(* Claims checked under SpecQueue *)

\* the queued action e has every key of keys with the value of payload
SameOnKeys(e, payload, keys) ==
    \A k \in Range(keys) : k \in DOMAIN e.payload /\ e.payload[k] = payload[k]

\* what of queue must survive a dispatch of payload with keys
KeptOnDispatch(queue, payload, keys) ==
    IF keys # << >> /\ \A k \in Range(keys) : k \in DOMAIN payload
    THEN SelectSeq(queue, LAMBDA e : ~SameOnKeys(e, payload, keys))
    ELSE queue

\* C12: Dedup on dispatch.  A dispatch step puts the new action at the tail.
\* The actions before it are, in their old order, the queued actions that do
\* not have every filter key with the new payload's value (all queued
\* actions, when the key list is empty or the payload lacks a key), less only
\* what the size bound drops from the front.  With applicable keys the new
\* action is then the only queued one matching on them.
C12_DedupOnDispatch ==
    [][\A d \in Devices :
          (lastOp'.op = "dispatch" /\ lastOp'.dev = d) =>
              LET q == actionQueue'[d]
                  new == q[Len(q)]
                  keys == lastOp'.keys
                  front == SubSeq(q, 1, Len(q) - 1)
                  kept == KeptOnDispatch(actionQueue[d], new.payload, keys)
              IN  /\ q # << >>
                  /\ new.uid = nextUid
                  /\ Len(front) <= Len(kept)
                  /\ front = SubSeq(kept, Len(kept) - Len(front) + 1, Len(kept))
                  /\ Len(kept) < MaxQueueSize => front = kept
                  /\ (keys # << >> /\ \A k \in Range(keys) : k \in DOMAIN new.payload)
                        => {i \in 1..Len(q) : SameOnKeys(q[i], new.payload, keys)}
                              = {Len(q)}
      ]_vars

\* C12 witness: the third dispatch, with the keys type and id, has removed
\* both queued actions: the queue holds the new action alone.
C12_Witness ==
    /\ lastOp.op = "dispatch" /\ lastOp.dev = "d1"
    /\ lastOp.keys = <<"type", "id">>
    /\ loadState["d1"] = "ready"
    /\ chromeStore["d1"] = NoStore(FALSE)
    /\ Len(actionQueue["d1"]) = 1
    /\ actionQueue["d1"][1].uid = 3

\* C13 (as claimed): in every reachable state the pending queue of a client
\* holds at most maxQueueSize actions.
C13_QueueBounded ==
    \A d \in Devices : Len(actionQueue[d]) <= MaxQueueSize

----------------------------------------------------------------------------
(* Claims checked under SpecAuthority *)

\* the position in log of the first entry that watermark identifies, by its
\* actionId or its serverId; 0 when it is '0' or identifies none
PositionOf(log, watermark) ==
    LET hits == {k \in 1..Len(log) :
                    log[k].actionId = watermark \/ log[k].serverId = watermark}
    IN  IF watermark = ZeroId \/ hits = {} THEN 0
        ELSE CHOOSE k \in hits : \A j \in hits : k <= j

\* C14: the response to a request of device D with watermark W holds exactly
\* the log entries after the entry W identifies (all, when W is '0' or
\* identifies none) that D did not submit, in log order, and its watermark is
\* the serverId of the last log entry ('0' for an empty log).  A request that
\* carries the watermark of the last log entry gets an empty list.
C14_ResponseIsTailOfOthers ==
    /\ [](lastOp.op = "peerSync" =>
            LET log == storage.actions
                pos == PositionOf(log, lastOp.w)
                idx == {k \in (pos + 1)..Len(log) :
                           log[k].sourceDevice # lastOp.dev}
            IN  /\ Len(lastOp.resp) = Cardinality(idx)
                /\ \A i \in 1..Len(lastOp.resp) :
                      \E k \in idx :
                          /\ Cardinality({j \in idx : j <= k}) = i
                          /\ lastOp.resp[i].actionId = log[k].actionId
                          /\ lastOp.resp[i].timestamp = log[k].timestamp
                          /\ lastOp.resp[i].deviceId = log[k].deviceId
                          /\ lastOp.resp[i].payload = log[k].payload
                /\ lastOp.latest = IF log = << >> THEN ZeroId
                                   ELSE log[Len(log)].serverId)
    /\ [][(/\ lastOp'.op = "peerSync"
           /\ storage.actions # << >>
           /\ lastOp'.w = storage.actions[Len(storage.actions)].serverId)
              => lastOp'.resp = << >>]_vars

\* C14 witness: the log holds actions of d2, d1, d2; d1 has sent the serverId
\* of the first as its watermark and has received the third alone.
C14_Witness ==
    /\ lastOp.op = "peerSync" /\ lastOp.dev = "d1"
    /\ Len(storage.actions) = 3
    /\ storage.actions[1].sourceDevice = "d2"
    /\ storage.actions[2].sourceDevice = "d1"
    /\ storage.actions[3].sourceDevice = "d2"
    /\ lastOp.w = storage.actions[1].serverId
    /\ UidSeq(lastOp.resp) = <<storage.actions[3].uid>>

----------------------------------------------------------------------------
(* Claims checked under SpecRemote *)

\* the actions of s in ascending order of their ids (hex strings of one length
\* compare as the numbers they denote)
RECURSIVE SortById(_)
SortById(s) ==
    IF s = << >> THEN << >>
    ELSE LET rest == SortById(SubSeq(s, 1, Len(s) - 1))
             e == s[Len(s)]
             k == Cardinality({i \in 1..Len(rest) :
                                  ~StringGreater(rest[i].actionId, e.actionId)})
         IN  SubSeq(rest, 1, k) \o <<e>> \o SubSeq(rest, k + 1, Len(rest))

\* C15 (as claimed): the payloads a successful sync() returns are those of the
\* received actions in ascending order of their ids, whatever the order of
\* the response's array, actions with the same timestamp included.
C15_RemotePayloadsSortedById ==
    [][\A d \in Devices :
          (lastOp'.op = "syncSuccess" /\ lastOp'.dev = d) =>
              lastOp'.payloads =
                  [i \in 1..Len(calls[d][lastOp'.i].resp.actions) |->
                      SortById(calls[d][lastOp'.i].resp.actions)[i].payload]
      ]_vars

----------------------------------------------------------------------------
(* Claims checked under SpecIds *)

\* C16 (as claimed): with a clock that does not go backwards, each id an
\* instance generates is greater, as a fixed-width hex string, than the one
\* it generated before, unless the 16-bit counter wrapped to 0 within the
\* same millisecond.
C16_IdsIncrease ==
    [][(/\ lastOp.op = "generateActionId"
        /\ lastOp'.op = "generateActionId"
        /\ lastOp'.dev = lastOp.dev
        /\ ~(lastOp'.ts = lastOp.ts /\ lastOp'.ctr % CounterMask = 0))
           => /\ Len(lastOp'.id) = Len(lastOp.id)
              /\ StringGreater(lastOp'.id, lastOp.id)
      ]_vars

\* the n-digit lower-case hex numeral of x
HexField(x, n) == PadStart(NatToString(x, 16), n)

\* C17 (as claimed): every generated id has exactly 16 hexadecimal digits
\* and denotes timestamp * 2^16 + (counter mod 2^16): eight digits of
\* timestamp div 2^16, four of timestamp mod 2^16, four of the counter.
C17_IdFormat ==
    lastOp.op = "generateActionId" =>
        /\ Len(lastOp.id) = 16
        /\ lastOp.id = HexField(lastOp.ts \div CounterMask, 8)
                          \o HexField(lastOp.ts % CounterMask, 4)
                          \o HexField(lastOp.ctr % CounterMask, 4)

----------------------------------------------------------------------------
(* Claims checked under SpecDestroy *)

\* C18 (as claimed): once destroy() has been called on an instance, no sync
\* timer of that instance is pending, in this and in every later state,
\* whatever was under way when destroy() was called; and a destroy() that
\* follows a destroy() changes nothing of the instance.
C18_NoTimerAfterDestroy ==
    /\ [](\A d \in Devices : destroyed[d] => syncTimer[d] = "none")
    /\ [][\A d \in Devices :
            (lastOp.op = "destroy" /\ lastOp.dev = d
                /\ lastOp'.op = "destroy" /\ lastOp'.dev = d)
               => UNCHANGED <<actionQueue, fullQueue, lastActionId,
                              actionIdCounter, chromeStore, syncTimer, calls>>
        ]_vars

\* C19 (as claimed): a sync() whose response arrives after destroy() leaves
\* the watermark, both queues and the storage of the instance as they were
\* and does not call onRemoteActions.
C19_LateResponseDiscarded ==
    [][\A d \in Devices :
          (/\ lastOp'.op = "syncSuccess"
           /\ lastOp'.dev = d
           /\ calls[d][lastOp'.i].cut)
             => /\ lastActionId'[d] = lastActionId[d]
                /\ actionQueue'[d] = actionQueue[d]
                /\ fullQueue'[d] = fullQueue[d]
                /\ chromeStore'[d] = chromeStore[d]
                /\ ~lastOp'.cb
      ]_vars

----------------------------------------------------------------------------
(* Claims checked under Spec: the retries of one sync() *)

\* every sync() in flight is at an attempt between 1 and retryAttempts
C20_AttemptsBounded ==
    \A d \in Devices : \A i \in 1..Len(calls[d]) :
        calls[d][i].attempt \in 1..RetryAttempts

\* a response ends the sync(), whatever its status; only a failed attempt
\* that is not the last one is followed by a wait, of 2^attempt seconds
C20_BackoffBetweenAttempts ==
    [][\A d \in Devices :
          lastOp'.dev = d =>
            /\ lastOp'.op \in {"syncSuccess", "syncRejected", "syncNetFail"}
                  => /\ Len(calls'[d]) = Len(calls[d]) - 1
                     /\ lastOp'.delay = 0
            /\ lastOp'.op = "syncRejected"
                  => lastOp'.code = "INVALID_RESPONSE"
            /\ lastOp'.op = "fetchRetry"
                  => /\ calls[d][lastOp'.i].attempt < RetryAttempts
                     /\ calls'[d][lastOp'.i].attempt
                            = calls[d][lastOp'.i].attempt + 1
                     /\ lastOp'.delay
                            = (2 ^ calls[d][lastOp'.i].attempt) * 1000
            /\ lastOp'.op = "syncNetFail"
                  => calls[d][lastOp'.i].attempt = RetryAttempts
      ]_vars

\* the failure of the last attempt is reported as a network error
C20_NetworkErrorAfterLast ==
    lastOp.op = "syncNetFail" => lastOp.code = "NETWORK_ERROR"

\* C20 (as claimed): one sync() makes between 1 and retryAttempts transport
\* attempts, stops at the first response (a non-success status is not
\* retried), waits 2^attempt seconds only between two attempts, and after
\* retryAttempts failed attempts fails with a network error.
C20_RetryContract ==
    /\ [](C20_AttemptsBounded /\ C20_NetworkErrorAfterLast)
    /\ C20_BackoffBetweenAttempts

----------------------------------------------------------------------------
(* Claims checked under SpecCallback *)

C22_CallbackOncePerSuccess ==
    /\ lastOp.op = "syncSuccess" => lastOp.cbArgs = <<lastOp.payloads>>
    /\ lastOp.op \in {"syncRejected", "syncNetFail"} => lastOp.cbArgs = << >>

\* C22 (amended): a sync() that succeeds with at least one remote action calls
\* the callback exactly once, with the payload list it returns; a sync() that
\* succeeds with no remote action, fails or is rejected does not call it.
C22_CallbackOncePerNonEmptySuccess ==
    /\ lastOp.op = "syncSuccess" =>
          lastOp.cbArgs = IF lastOp.payloads # << >> THEN <<lastOp.payloads>>
                          ELSE << >>
    /\ lastOp.op \in {"syncRejected", "syncNetFail"} => lastOp.cbArgs = << >>

\* C22 witness: a sync() returned two remote payloads and called the callback
\* once with them.
C22_Witness ==
    /\ lastOp.op = "syncSuccess"
    /\ Len(lastOp.payloads) = 2
    /\ lastOp.cbArgs = <<lastOp.payloads>>

----------------------------------------------------------------------------
(* Claims checked under SpecAuto: the two timers *)

\* a sync() started by the periodic timeout is in flight (its .finally will
\* arm the next periodic timeout)
PeriodicInFlight(d) == \E i \in 1..Len(calls[d]) : calls[d][i].by = "periodic"

\* C23 (as claimed): in auto-sync mode a dispatch does not cancel the periodic
\* timer; once started, the periodic timer is pending or its sync() is under
\* way, so that it keeps firing; and a debounce timer, once armed, stays
\* pending until it fires or a later dispatch re-arms it.
C23_TimersIndependent ==
    /\ [](\A d \in Devices :
            (autoSync[d] /\ loadState[d] = "ready") =>
                ("periodic" \in PendingTimers(d) \/ PeriodicInFlight(d)))
    /\ [][\A d \in Devices :
            /\ ("periodic" \in PendingTimers(d)
                   /\ lastOp'.op = "dispatch" /\ lastOp'.dev = d)
                  => "periodic" \in PendingTimers(d)'
            /\ ("debounce" \in PendingTimers(d)
                   /\ ~(lastOp'.op = "timerFire" /\ lastOp'.dev = d))
                  => "debounce" \in PendingTimers(d)'
        ]_vars

\* C24 (as claimed): after a sync() started by a timeout has failed, a
\* timeout is pending again, or the periodic sync() that will arm one is
\* under way: another automatic sync follows without a dispatch.
C24_RearmedAfterFailure ==
    [][\A d \in Devices :
          (/\ lastOp'.dev = d
           /\ lastOp'.op \in {"syncNetFail", "syncRejected"}
           /\ calls[d][lastOp'.i].by \in {"periodic", "debounce"})
             => (PendingTimers(d)' # {} \/ PeriodicInFlight(d)')
      ]_vars

----------------------------------------------------------------------------
(* Claims checked under SpecPost *)

\* the fields every record of a batch must have
RequiredFields == {"actionId", "timestamp", "payload"}

\* some element of the request's actions array lacks a required field
HasMalformedItem(req) ==
    \E k \in 1..Len(req.actions.items) :
        ~(RequiredFields \subseteq DOMAIN req.actions.items[k])

\* C25 (as claimed): a request with a record that lacks its id, timestamp or
\* payload is answered with an error status and leaves the log, the
\* per-device map and the counter as they were.
C25_MalformedBatchRejected ==
    [][(lastOp'.op = "postSync" /\ HasMalformedItem(lastOp'.req))
          => /\ lastOp'.status # 200
             /\ ~lastOp'.success
             /\ storage' = storage
      ]_vars

\* C26: a request without a deviceId, or whose actions is not an array, is
\* answered with status 400 and success false, and the log, the per-device
\* map and the counter stay as they were.
C26_InvalidRequestRejected ==
    [][(/\ lastOp'.op = "postSync"
        /\ (lastOp'.req.deviceId = "" \/ ~lastOp'.req.actions.isArray))
          => /\ lastOp'.status = 400
             /\ ~lastOp'.success
             /\ storage' = storage
      ]_vars

\* C26 witness: the log holds actions, and a request without a deviceId that
\* carried two actions was answered with 400.
C26_Witness ==
    /\ lastOp.op = "postSync"
    /\ lastOp.req.deviceId = ""
    /\ Len(lastOp.req.actions.items) = 2
    /\ lastOp.status = 400
    /\ storage.actions # << >>

----------------------------------------------------------------------------
(* Claims checked under SpecAuthority: the log *)

\* Number(s) of a decimal numeral
RECURSIVE ParseNat(_)
ParseNat(s) ==
    IF s = << >> THEN 0
    ELSE 10 * ParseNat(SubSeq(s, 1, Len(s) - 1)) + (s[Len(s)] - ZeroChar)

\* the sequence number of a serverId: the numeral after its last '-'
ServerSequence(id) ==
    LET dash == CHOOSE i \in 1..Len(id) :
                    id[i] = Minus /\ \A j \in (i + 1)..Len(id) : id[j] # Minus
    IN  ParseNat(SubSeq(id, dash + 1, Len(id)))

\* C27: the sequence numbers of the serverIds in the log are strictly
\* increasing in log order, and no serverId is assigned to two entries.
C27_SequenceIdsIncrease ==
    \A i, j \in 1..Len(storage.actions) :
        i < j => /\ ServerSequence(storage.actions[i].serverId)
                       < ServerSequence(storage.actions[j].serverId)
                 /\ storage.actions[i].serverId # storage.actions[j].serverId

\* C27 witness: the log holds three actions of both devices; two of them came
\* in one request, the third in another.
C27_Witness ==
    /\ Len(storage.actions) = 3
    /\ storage.actions[1].sourceDevice # storage.actions[3].sourceDevice
    /\ lastOp.op = "peerSync"
    /\ Len(lastOp.req.actions.items) = 2

\* C28: under sync requests the log only grows at its end: the log before a
\* step is a prefix of the log after it, and a request extends it by exactly
\* the actions of its batch, in batch order, marked with the sender.
C28_LogAppendOnly ==
    [][LET old == storage.actions
           new == storage'.actions
       IN  /\ Len(new) >= Len(old)
           /\ SubSeq(new, 1, Len(old)) = old
           /\ lastOp'.op = "peerSync" =>
                LET items == lastOp'.req.actions.items
                IN  /\ Len(new) = Len(old) + Len(items)
                    /\ \A k \in 1..Len(items) :
                          /\ WireAction(new[Len(old) + k]) = items[k]
                          /\ new[Len(old) + k].sourceDevice = lastOp'.dev
      ]_vars

\* C28 witness: d1's request with two actions was appended after an action
\* of d2.
C28_Witness ==
    /\ lastOp.op = "peerSync" /\ lastOp.dev = "d1"
    /\ Len(lastOp.req.actions.items) = 2
    /\ Len(storage.actions) = 3
    /\ storage.actions[1].sourceDevice = "d2"
    /\ storage.actions[3].sourceDevice = "d1"

----------------------------------------------------------------------------
(* Claims checked under SpecArgs *)

\* a dispatch step that failed and changed nothing of the instance
DispatchFailed(d) ==
    /\ lastOp'.op = "dispatchRejected"
    /\ lastOp'.dev = d
    /\ UNCHANGED <<actionQueue, fullQueue, lastActionId, actionIdCounter,
                   chromeStore, syncTimer, calls, nextUid>>

\* C29 (as claimed): dispatch fails, and changes nothing, when the payload
\* is not an object or when filterKeys is not an array of strings.
C29_InvalidArgumentsRejected ==
    [][\A d \in Devices, action \in ActionArgs, filterKeys \in KeysArgs :
          (/\ DispatchCall(d, action, filterKeys)
           /\ (action.kind \notin {"object", "array"}
                  \/ filterKeys.kind # "strings"))
             => DispatchFailed(d)
      ]_vars

\* C29 (amended): dispatch fails, and changes nothing, when the payload is
\* not an object or when filterKeys is not an array.
C29_NonObjectOrNonArrayRejected ==
    [][\A d \in Devices, action \in ActionArgs, filterKeys \in KeysArgs :
          (/\ DispatchCall(d, action, filterKeys)
           /\ (action.kind \notin {"object", "array"}
                  \/ filterKeys.kind \notin {"strings", "numbers"}))
             => DispatchFailed(d)
      ]_vars

\* C29 witness: with an action pending and the periodic timer armed, a
\* dispatch of an object with filterKeys null has failed.
C29_Witness ==
    /\ lastOp.op = "dispatchRejected"
    /\ lastOp.req[1].kind = "object"
    /\ lastOp.req[2].kind = "null"
    /\ Len(actionQueue["d1"]) = 1
    /\ syncTimer["d1"] = "periodic"

----------------------------------------------------------------------------
(* Claims checked under SpecMalformed *)

\* C30: import() of text that is not valid JSON, or whose actions field is
\* missing or not an array, fails, and the watermark and both queues are as
\* they were.
C30_MalformedImportRejected ==
    [][\A d \in Devices :
          (/\ lastOp'.op = "import"
           /\ lastOp'.dev = d
           /\ lastOp'.req.kind \in {"badjson", "noactions", "notalist"})
             => /\ lastOp'.code = "IMPORT_FAILED"
                /\ lastOp'.payloads = << >>
                /\ lastActionId'[d] = lastActionId[d]
                /\ actionQueue'[d] = actionQueue[d]
                /\ fullQueue'[d] = fullQueue[d]
      ]_vars

\* C30 witness: with actions in both queues, the import of a document whose
\* actions is not an array and whose lastActionId is above the instance's
\* has failed.
C30_Witness ==
    /\ lastOp.op = "import"
    /\ lastOp.code = "IMPORT_FAILED"
    /\ lastOp.req.kind = "notalist"
    /\ lastOp.req.lastActionId = OtherId
    /\ StringGreater(OtherId, lastActionId[lastOp.dev])
    /\ actionQueue[lastOp.dev] # << >>
    /\ fullQueue[lastOp.dev] # << >>

----------------------------------------------------------------------------
(* Claims checked under SpecWatermark *)

\* the value of a hexadecimal numeral
RECURSIVE HexValue(_)
HexValue(s) ==
    IF s = << >> THEN 0
    ELSE 16 * HexValue(SubSeq(s, 1, Len(s) - 1))
             + (IF s[Len(s)] < 58 THEN s[Len(s)] - ZeroChar ELSE s[Len(s)] - 87)

IsServerId(w) ==
    Len(w) > Len(ServerPrefix) /\ SubSeq(w, 1, Len(ServerPrefix)) = ServerPrefix

\* x is numerically greater than y, for two watermarks of one kind: '0' is
\* zero, a serverId is its sequence number, an actionId the 64-bit number
\* its sixteen digits spell (compared as its two 32-bit halves)
NumericallyGreater(x, y) ==
    IF x = ZeroId THEN FALSE
    ELSE IF y = ZeroId THEN TRUE
    ELSE IF IsServerId(x) THEN ServerSequence(x) > ServerSequence(y)
    ELSE LET xh == HexValue(SubSeq(x, 1, 8))
             yh == HexValue(SubSeq(y, 1, 8))
         IN  \/ xh > yh
             \/ xh = yh /\ HexValue(SubSeq(x, 9, 16)) > HexValue(SubSeq(y, 9, 16))

\* C31 (as claimed): an import() that accepts its document sets the watermark
\* to the document's watermark if and only if that one is numerically greater
\* than the current one, and otherwise leaves it as it is.
C31_ImportWatermarkNumeric ==
    [][lastOp'.op = "import" /\ lastOp'.code = ""
        => LET d == lastOp'.dev
               w == lastOp'.req.lastActionId
           IN  lastActionId'[d] = IF NumericallyGreater(w, lastActionId[d])
                                  THEN w
                                  ELSE lastActionId[d]]_vars

----------------------------------------------------------------------------
(* Claims checked under SpecBackup *)

\* C32 (as claimed): reexportLast() fails with NoPriorExport exactly when
\* export() was never called on the instance; otherwise the document it
\* returns has the records, in their order, and the watermark of the last
\* document export() produced, whatever was dispatched or synced since.
C32_ReexportEqualsLastExport ==
    [][lastOp'.op = "reexportLast"
        => LET last == exportDoc[lastOp'.dev]
           IN  /\ (lastOp'.code = "NoPriorExport") <=> (last.kind = "none")
               /\ last.kind = "ok"
                    => /\ lastOp'.resp.actions = last.actions
                       /\ lastOp'.resp.lastActionId = last.lastActionId]_vars

\* C34: export() of the class that keeps lastExportQueue leaves the pending
\* queue empty, lastExportQueue equal to the pending queue it found, which is
\* the records of the document in their order, and isSynced() true.
C34_ExportMovesQueueToBackup ==
    [][\A d \in Devices :
          lastOp'.op = "exportAndClear" /\ lastOp'.dev = d
            => /\ Len(actionQueue'[d]) = 0
               /\ lastExportQueue'[d] = actionQueue[d]
               /\ exportDoc'[d].actions = lastExportQueue'[d]
               /\ IsSynced(d)']_vars

\* C34 witness: an export() that found two pending records, on an instance
\* whose watermark a sync has advanced.
C34_Witness ==
    /\ lastOp.op = "exportAndClear"
    /\ Len(lastExportQueue["d1"]) = 2
    /\ Len(actionQueue["d1"]) = 0
    /\ lastActionId["d1"] # ZeroId

----------------------------------------------------------------------------
(* Claims checked under SpecHistory *)

\* the uids of a list of records are in dispatch order, none twice
InDispatchOrder(actions) ==
    \A i, j \in 1..Len(actions) : i < j => actions[i].uid < actions[j].uid

\* the payloads a device obtains from import() are those of the records of
\* the document, in dispatch order
ImportYieldsDispatchOrder ==
    lastOp'.op = "import" /\ lastOp'.code = ""
        => LET doc == lastOp'.req.actions
           IN  /\ Len(lastOp'.payloads) = Len(doc)
               /\ \A k \in 1..Len(doc) :
                      lastOp'.payloads[k] = NumberedPayload(doc[k].uid)

Latest(uids, n) == {u \in uids : Cardinality({v \in uids : v > u}) < n}

----------------------------------------------------------------------------
(* Claims checked under SpecClock *)

\* the millisecond value an id embeds: its first twelve hexadecimal digits
IdTimestamp(id) == HexValue(SubSeq(id, 1, 12))

\* C35 (as claimed): the timestamp of every record dispatch creates equals
\* the millisecond value embedded in its actionId, also when the clock
\* advances between the two clock reads of one dispatch.
C35_TimestampMatchesId ==
    \A d \in Devices : \A k \in 1..Len(actionQueue[d]) :
        actionQueue[d][k].timestamp = IdTimestamp(actionQueue[d][k].actionId)

----------------------------------------------------------------------------
(* Further claims checked under Spec *)

\* C36 (as claimed): the authority's log never holds the same client
\* record (the same submitting device and the same record, hence the same
\* actionId) twice, also when a batch is sent again after a lost response
\* or by an overlapping sync().
C36_LogHasNoDuplicate ==
    \A i, j \in 1..Len(storage.actions) :
        (/\ i < j
         /\ storage.actions[i].sourceDevice = storage.actions[j].sourceDevice
         /\ storage.actions[i].uid = storage.actions[j].uid)
            => storage.actions[i].actionId # storage.actions[j].actionId

----------------------------------------------------------------------------
(* Further claims checked under SpecAuto *)

\* C37 (as claimed): the watermark of a client never moves to an earlier
\* position of the authority's log: after every step it identifies a log
\* position at or after the one it identified before, also when sync()
\* calls overlap and their responses are handled in another order than
\* the authority handled the requests.
C37_WatermarkNeverMovesBack ==
    [][\A d \in Devices :
          PositionOf(storage'.actions, lastActionId'[d])
              >= PositionOf(storage.actions, lastActionId[d])]_vars

----------------------------------------------------------------------------
(* Claims checked under SpecShare *)

\* C38 (as claimed): importing a document another device exported never
\* makes a device miss records: when a sync() of d1 succeeds after d1 has
\* imported a document of d2, d1 has been handed, in sync responses, every
\* record that d3 had submitted to the authority when the authority
\* handled the request of that sync().
C38_ImportLosesNoRecord ==
    [][(/\ lastOp'.op = "syncSuccess"
        /\ lastOp'.dev = "d1"
        /\ imported["d1"].done)
           => LET log == storage.actions
                  upTo == PositionOf(log, calls["d1"][lastOp'.i].resp.lastActionId)
              IN  \A k \in 1..upTo :
                      log[k].sourceDevice \in Peers
                          => returned["d1"][log[k].uid] >= 1
      ]_vars

----------------------------------------------------------------------------
(* Further claims checked under SpecLife *)

\* C39 (as claimed): the records dispatched before the load of persisted
\* state has completed are in the pending queue after it has completed:
\* the step that completes the initialization drops no record the queue
\* held.
C39_LoadKeepsDispatched ==
    [][\A d \in Devices :
          lastOp'.op = "loadComplete" /\ lastOp'.dev = d
              => Uids(actionQueue[d]) \subseteq Uids(actionQueue'[d])
      ]_vars

----------------------------------------------------------------------------
(* Claims checked under SpecAutoLive *)

\* C40 (as claimed): in auto-sync mode, if the authority eventually becomes
\* and stays reachable and the instance is not destroyed, a pending queue
\* that holds records eventually becomes empty, by the syncs the timers
\* start, without a further dispatch or a call of sync().
C40_QueueEventuallyEmpty ==
    <>[](~Unreachable) =>
        ((actionQueue["d1"] # << >>) ~> (actionQueue["d1"] = << >>))

============================================================================
